---- MODULE Spec2Model ----
(***************************************************************************)
(* Benchmark-result analysis of vroom: the regression check                *)
(* (src/src/libvroom/benchmark/check_regression.py, the older              *)
(* src/benchmark/check_regression.py and RegressionDetector of             *)
(* src/benchmark/report_generator.py).                                     *)
(*                                                                         *)
(* Numbers.  real_time values of a document are integers; what the code    *)
(* computes from them with / (means, ratios) is kept as an exact fraction  *)
(* <<n, d>>, d > 0, in lowest terms.  Rounding of binary floating point is *)
(* outside this model.                                                      *)
(* A Python dict is a sequence of [name, val] items with distinct names,   *)
(* in insertion order. An optional value is a sequence of length 0 or 1.   *)
(***************************************************************************)
EXTENDS Integers, Sequences, FiniteSets, TLC

VARIABLES
    pc,         \* position of the run: of main, or of a single function call
    script,     \* which script runs: the check_regression.py of "libvroom"
                \* or of "benchmark", or "analyze_hypotheses"
    environ,    \* os.environ: GITHUB_EVENT_NAME, GITHUB_REF
    args,       \* parsed command line: head, base, threshold, or
                \* results_file, format
    fs,         \* the files: path -> content
    current,    \* main's current (None or a dict)
    time_unit,  \* main's time_unit
    baseline,   \* main's baseline (None or a dict)
    cmp,        \* main's regressions, improvements, unchanged, skipped
    exit_code,  \* status of the process once it ended
    out,        \* what main printed, one tag per message
    copies,     \* number of shutil.copy calls of the run
    call,       \* arguments of a single function call
    ret,        \* what that call returned
    hyp_results, \* results of analyze_hypotheses.py's main
    analyses    \* analyses of analyze_hypotheses.py's main

vars == <<pc, script, environ, args, fs, current, time_unit, baseline, cmp,
          exit_code, out, copies, call, ret, hyp_results, analyses>>

----------------------------------------------------------------------------
(* Exact fractions *)

Abs(x) == IF x < 0 THEN -x ELSE x

RECURSIVE GCD(_, _)
GCD(a, b) == IF b = 0 THEN a ELSE GCD(b, a % b)

\* n / d for d # 0, in lowest terms with a positive denominator
Frac(n, d) ==
    LET g == GCD(Abs(n), Abs(d))
        s == IF d < 0 THEN -1 ELSE 1
    IN  <<(s * n) \div g, (s * d) \div g>>

RSub(a, b) == Frac(a[1] * b[2] - b[1] * a[2], a[2] * b[2])
RDiv(a, b) == Frac(a[1] * b[2], a[2] * b[1])
RNeg(a)    == <<-a[1], a[2]>>
RLt(a, b)  == a[1] * b[2] < b[1] * a[2]
RGt(a, b)  == RLt(b, a)
RLe(a, b)  == ~RLt(b, a)

----------------------------------------------------------------------------
(* Python dicts and lists *)

RECURSIVE SumSeq(_)
SumSeq(s) == IF s = <<>> THEN 0 ELSE Head(s) + SumSeq(Tail(s))

Keys(d) == {d[i].name : i \in DOMAIN d}
HasKey(d, n) == \E i \in DOMAIN d : d[i].name = n
Get(d, n) == d[CHOOSE i \in DOMAIN d : d[i].name = n].val

\* d[n].append(v), creating d[n] = [] first when n is not a key
AppendTo(d, n, v) ==
    IF HasKey(d, n)
    THEN [i \in DOMAIN d |-> IF d[i].name = n
                             THEN [name |-> n, val |-> Append(d[i].val, v)]
                             ELSE d[i]]
    ELSE Append(d, [name |-> n, val |-> <<v>>])

None == [none |-> TRUE, items |-> <<>>]
Some(d) == [none |-> FALSE, items |-> d]

----------------------------------------------------------------------------
(* The benchmark document and load_benchmark *)

\* A file: absent, not parseable as JSON, or a JSON document whose
\* "benchmarks" is a list of entries
Absent == [kind |-> "absent", benchmarks |-> <<>>]
Malformed == [kind |-> "malformed", benchmarks |-> <<>>]
Json(benchmarks) == [kind |-> "json", benchmarks |-> benchmarks]

\* mutant: only the error_occurred flag is looked at
IsErrored_flagOnly(bench) == bench.error_occurred

\* bench.get('error_occurred') or bench.get('error_message')
IsErrored(bench) ==
    bench.error_occurred
    \/ (bench.error_message # <<>> /\ bench.error_message[1] # "")

\* mutant: aggregate entries are not skipped
IsAggregate_never(bench) == FALSE

\* bench.get('aggregate_name')
IsAggregate(bench) == bench.aggregate_name # ""

\* the line appended to errors for an errored entry
ErrorLine(bench) ==
    [tag |-> "error",
     name |-> bench.name,
     msg |-> IF bench.error_message = <<>> THEN "Unknown error"
             ELSE bench.error_message[1]]

\* errors, in document order
Errors(benchmarks) ==
    LET errored == SelectSeq(benchmarks, IsErrored)
    IN  [i \in DOMAIN errored |-> ErrorLine(errored[i])]

\* an entry the extraction loop does not skip
IsExtracted(bench) ==
    ~IsAggregate(bench) /\ ~IsErrored(bench) /\ bench.real_time # <<>>

\* results after the extraction loop: name -> list of real_time
RECURSIVE Extract(_, _)
Extract(benchmarks, results) ==
    IF benchmarks = <<>> THEN results
    ELSE LET bench == Head(benchmarks)
         IN  Extract(Tail(benchmarks),
                     IF IsExtracted(bench)
                     THEN AppendTo(results, bench.name, bench.real_time[1])
                     ELSE results)

\* time_unit after the extraction loop
RECURSIVE ExtractUnit(_, _)
ExtractUnit(benchmarks, unit) ==
    IF benchmarks = <<>> THEN unit
    ELSE LET bench == Head(benchmarks)
         IN  ExtractUnit(Tail(benchmarks),
                         IF IsExtracted(bench) /\ bench.time_unit # <<>>
                         THEN bench.time_unit[1]
                         ELSE unit)

\* mutant: the divisor counts one entry too many
Average_offByOne(times) == Frac(SumSeq(times), Len(times) + 1)

\* sum(times) / len(times)
Average(times) == Frac(SumSeq(times), Len(times))

\* {name: sum(times) / len(times) for name, times in results.items()}
Averages(results) ==
    [i \in DOMAIN results |->
        [name |-> results[i].name, val |-> Average(results[i].val)]]

LoadFailed(lines) == [results |-> None, time_unit |-> <<>>, lines |-> lines]

\* load_benchmark of libvroom: (results, time_unit) or (None, None), and the
\* lines it printed
load_benchmark(file, check_errors) ==
    IF file.kind = "absent" THEN LoadFailed(<<>>)
    ELSE IF file.kind = "malformed"
    THEN LoadFailed(<<[tag |-> "parse_error", name |-> "", msg |-> ""]>>)
    ELSE LET errors == Errors(file.benchmarks)
         IN  IF errors # <<>> /\ check_errors
             THEN LoadFailed(<<[tag |-> "errors_detected", name |-> "",
                                msg |-> ""]>> \o errors)
             ELSE [results |-> Some(Averages(Extract(file.benchmarks, <<>>))),
                   time_unit |-> <<ExtractUnit(file.benchmarks, "ns")>>,
                   lines |-> <<>>]

\* load_benchmark of the older script: the dict or None, no time unit
B_load_benchmark(file, check_errors) ==
    IF file.kind = "absent" THEN LoadFailed(<<>>)
    ELSE IF file.kind = "malformed"
    THEN LoadFailed(<<[tag |-> "parse_error", name |-> "", msg |-> ""]>>)
    ELSE LET errors == Errors(file.benchmarks)
         IN  IF errors # <<>> /\ check_errors
             THEN LoadFailed(<<[tag |-> "errors_detected", name |-> "",
                                msg |-> ""]>> \o errors)
             ELSE [results |-> Some(Averages(Extract(file.benchmarks, <<>>))),
                   time_unit |-> <<>>,
                   lines |-> <<>>]

----------------------------------------------------------------------------
(* compare_benchmarks *)

\* REGRESSION_THRESHOLD = 0.15 (libvroom) and 0.10 (older script)
REGRESSION_THRESHOLD == <<15, 100>>
B_REGRESSION_THRESHOLD == <<10, 100>>

EXPECTED_BENCHMARK_COUNT == 7
B_EXPECTED_BENCHMARK_COUNT == 4

MIN_TIME_THRESHOLD_NS == 1000000

\* MIN_TIME_THRESHOLD = {...}.get(time_unit, 1)
MIN_TIME_THRESHOLD(unit) ==
    CASE unit = "ns" -> <<1000000, 1>>
      [] unit = "us" -> <<1000, 1>>
      [] unit = "ms" -> <<1, 1>>
      [] unit = "s"  -> <<1, 1000>>
      [] OTHER       -> <<1, 1>>

\* the four lists, and whether the call raised ZeroDivisionError instead of
\* returning them
NoLists == [regressions |-> <<>>, improvements |-> <<>>,
            unchanged |-> <<>>, skipped |-> <<>>, raised |-> FALSE]

\* mutant: the floor test is forgotten, only base_time <= 0 skips
IsSkipped_zeroOnly(base_time, floor) == RLe(base_time, <<0, 1>>)

\* mutant: a baseline exactly at the floor is skipped too
IsSkipped_atFloor(base_time, floor) ==
    RLe(base_time, <<0, 1>>) \/ RLe(base_time, floor)

\* base_time <= 0 or base_time < MIN_TIME_THRESHOLD
IsSkipped(base_time, floor) ==
    RLe(base_time, <<0, 1>>) \/ RLt(base_time, floor)

\* ratio = (curr_time - base_time) / base_time
Ratio(base_time, curr_time) == RDiv(RSub(curr_time, base_time), base_time)

\* mutant: a name not in baseline is recorded with a ratio of 0
NewTuple_zeroRatio(name, curr_time) ==
    [name |-> name, base |-> <<curr_time>>, curr |-> <<>>,
     ratio |-> <<<<0, 1>>>>]

\* (name, curr_time, None, None), the tuple of a name not in baseline
NewTuple(name, curr_time) ==
    [name |-> name, base |-> <<curr_time>>, curr |-> <<>>, ratio |-> <<>>]

\* mutant: the sign of the threshold is forgotten, ratio < threshold
IsImprovement_unsigned(ratio, threshold) == RLt(ratio, threshold)

\* ratio < -threshold
IsImprovement(ratio, threshold) == RLt(ratio, RNeg(threshold))

\* mutant: ratio >= threshold
IsRegression_orEqual(ratio, threshold) == RLe(threshold, ratio)

\* ratio > threshold
IsRegression(ratio, threshold) == RGt(ratio, threshold)

\* mutant: the continue after skipped.append is missing, a skipped name is
\* classified as well
CompareOne_noContinue(base, item, floor, threshold, lists) ==
    LET name == item.name
        curr_time == item.val
    IN  IF ~HasKey(base, name)
        THEN [lists EXCEPT !.unchanged = Append(@, NewTuple(name, curr_time))]
        ELSE LET base_time == Get(base, name)
                 seen == IF IsSkipped(base_time, floor)
                         THEN [lists EXCEPT !.skipped =
                                 Append(@, [name |-> name, base |-> base_time,
                                            curr |-> curr_time])]
                         ELSE lists
             IN  IF base_time[1] = 0
                 THEN [seen EXCEPT !.raised = TRUE]
                 ELSE LET ratio == Ratio(base_time, curr_time)
                          t == [name |-> name, base |-> <<base_time>>,
                                curr |-> <<curr_time>>, ratio |-> <<ratio>>]
                      IN  IF IsRegression(ratio, threshold)
                          THEN [seen EXCEPT !.regressions = Append(@, t)]
                          ELSE IF IsImprovement(ratio, threshold)
                          THEN [seen EXCEPT !.improvements = Append(@, t)]
                          ELSE [seen EXCEPT !.unchanged = Append(@, t)]

\* one pass of the loop body over the item (name, curr_time)
CompareOne(base, item, floor, threshold, lists) ==
    LET name == item.name
        curr_time == item.val
    IN  IF ~HasKey(base, name)
        THEN [lists EXCEPT !.unchanged = Append(@, NewTuple(name, curr_time))]
        ELSE LET base_time == Get(base, name)
             IN  IF IsSkipped(base_time, floor)
                 THEN [lists EXCEPT !.skipped =
                         Append(@, [name |-> name, base |-> base_time,
                                    curr |-> curr_time])]
                 ELSE IF base_time[1] = 0
                 THEN [lists EXCEPT !.raised = TRUE]
                 ELSE LET ratio == Ratio(base_time, curr_time)
                          t == [name |-> name, base |-> <<base_time>>,
                                curr |-> <<curr_time>>, ratio |-> <<ratio>>]
                      IN  IF IsRegression(ratio, threshold)
                          THEN [lists EXCEPT !.regressions = Append(@, t)]
                          ELSE IF IsImprovement(ratio, threshold)
                          THEN [lists EXCEPT !.improvements = Append(@, t)]
                          ELSE [lists EXCEPT !.unchanged = Append(@, t)]

\* for name, curr_time in current.items(): ...
RECURSIVE CompareLoop(_, _, _, _, _)
CompareLoop(base, items, floor, threshold, lists) ==
    IF items = <<>> \/ lists.raised THEN lists
    ELSE CompareLoop(base, Tail(items), floor, threshold,
                     CompareOne(base, Head(items), floor, threshold, lists))

\* mutant: the return statement sits inside the loop, after its first pass
compare_benchmarks_firstOnly(base, curr, unit, threshold) ==
    CompareLoop(base, IF curr = <<>> THEN <<>> ELSE <<Head(curr)>>,
                MIN_TIME_THRESHOLD(unit), threshold, NoLists)

\* compare_benchmarks of libvroom
compare_benchmarks(base, curr, unit, threshold) ==
    CompareLoop(base, curr, MIN_TIME_THRESHOLD(unit), threshold, NoLists)

\* compare_benchmarks of the older script: nanoseconds and the module's
\* threshold
B_compare_benchmarks(base, curr) ==
    CompareLoop(base, curr, <<MIN_TIME_THRESHOLD_NS, 1>>,
                B_REGRESSION_THRESHOLD, NoLists)

----------------------------------------------------------------------------
(* RegressionDetector.detect_regressions of report_generator.py *)

RMul(a, b) == Frac(a[1] * b[1], a[2] * b[2])

\* baseline_lookup.get(name): the last entry of that name, if any
Lookup(benchmarks, name) ==
    LET at == {i \in DOMAIN benchmarks : benchmarks[i].name = name}
    IN  IF at = {} THEN <<>>
        ELSE <<benchmarks[CHOOSE i \in at : \A j \in at : j <= i]>>

NoDetected == [regressions |-> <<>>, skipped |-> <<>>]

\* one pass of the loop body over current_bench; percent is the threshold
DetectOne(baseline_benchmarks, current_bench, percent, found) ==
    LET name == current_bench.name
        baseline_bench == Lookup(baseline_benchmarks, name)
    IN  IF baseline_bench = <<>> THEN found
        ELSE LET current_time == current_bench.real_time
                 baseline_time == baseline_bench[1].real_time
             IN  IF RLe(baseline_time, <<0, 1>>)
                    \/ RLt(baseline_time, <<MIN_TIME_THRESHOLD_NS, 1>>)
                 THEN [found EXCEPT !.skipped =
                         Append(@, [name |-> name,
                                    current_time |-> current_time,
                                    baseline_time |-> baseline_time])]
                 ELSE LET time_change_percent ==
                              RMul(Ratio(baseline_time, current_time),
                                   <<100, 1>>)
                      IN  IF RGt(time_change_percent, percent)
                          THEN [found EXCEPT !.regressions =
                                  Append(@, [name |-> name,
                                             current_time |-> current_time,
                                             baseline_time |-> baseline_time,
                                             regression_percent |->
                                                 time_change_percent])]
                          ELSE found

RECURSIVE DetectLoop(_, _, _, _)
DetectLoop(baseline_benchmarks, benchmarks, percent, found) ==
    IF benchmarks = <<>> THEN found
    ELSE DetectLoop(baseline_benchmarks, Tail(benchmarks), percent,
                    DetectOne(baseline_benchmarks, Head(benchmarks), percent,
                              found))

\* detect_regressions; base is <<>> when no baseline was provided
detect_regressions(base, benchmarks, percent) ==
    IF base = <<>> THEN NoDetected
    ELSE DetectLoop(base[1], benchmarks, percent, NoDetected)

----------------------------------------------------------------------------
(* main of check_regression.py *)

HEAD_PATH == "build/benchmark_results.json"
BASE_PATH == "baseline_benchmark.json"

Line(tag) == [tag |-> tag, name |-> "", msg |-> ""]
NameLine(tag, name) == [tag |-> tag, name |-> name, msg |-> ""]

\* mutant: any push counts, whatever the branch
is_main_push_anyBranch == environ.GITHUB_EVENT_NAME = "push"

\* is_main_push
is_main_push ==
    environ.GITHUB_EVENT_NAME = "push"
    /\ environ.GITHUB_REF \in {"refs/heads/main", "refs/heads/master"}

\* relative_mode: args.head and args.base (the older script has no arguments)
relative_mode ==
    script = "libvroom" /\ args.head # <<>> /\ args.base # <<>>

head_path == IF relative_mode THEN args.head[1] ELSE HEAD_PATH
base_path == IF relative_mode THEN args.base[1] ELSE BASE_PATH

\* threshold = args.threshold; the older script reads REGRESSION_THRESHOLD
threshold == IF script = "libvroom" THEN args.threshold
             ELSE B_REGRESSION_THRESHOLD

ExpectedCount == IF script = "libvroom" THEN EXPECTED_BENCHMARK_COUNT
                 ELSE B_EXPECTED_BENCHMARK_COUNT

\* mutant: off by one, one missing benchmark is let through
HasTooFew_offByOne(results) == Len(results) < ExpectedCount - 1

\* mutant: main falls off its end even when regressions were found
ExitStatus_alwaysZero(regressions) == 0

\* len(current) < EXPECTED_BENCHMARK_COUNT
HasTooFew(results) == Len(results) < ExpectedCount

\* the status main ends with after the comparison: sys.exit(1) when
\* regressions is non-empty, falling off the end of main otherwise
ExitStatus(regressions) == IF regressions = <<>> THEN 0 ELSE 1

\* time_unit or 'ns'
time_unit_or_ns ==
    IF time_unit = <<>> \/ time_unit[1] = "" THEN "ns" ELSE time_unit[1]

\* shutil.copy('build/benchmark_results.json', 'baseline_benchmark.json')
Copy(files) == [files EXCEPT ![BASE_PATH] = files[HEAD_PATH]]

\* the "(new benchmark)" lines of the UNCHANGED listing
UnchangedLines(unchanged) ==
    [i \in DOMAIN unchanged |->
        NameLine(IF unchanged[i].ratio # <<>> THEN "unchanged"
                 ELSE "new benchmark", unchanged[i].name)]

\* the listings main prints after compare_benchmarks returned
Listing(lists) ==
    (IF lists.skipped # <<>>
     THEN <<Line("SKIPPED")>>
          \o [i \in DOMAIN lists.skipped |->
                NameLine("skipped", lists.skipped[i].name)]
     ELSE <<>>)
    \o (IF lists.regressions # <<>>
        THEN <<Line("REGRESSIONS DETECTED")>>
             \o [i \in DOMAIN lists.regressions |->
                   NameLine("regression", lists.regressions[i].name)]
        ELSE <<>>)
    \o (IF lists.improvements # <<>>
        THEN <<Line("IMPROVEMENTS")>>
             \o [i \in DOMAIN lists.improvements |->
                   NameLine("improvement", lists.improvements[i].name)]
        ELSE <<>>)
    \o (IF lists.unchanged # <<>>
        THEN <<Line("UNCHANGED")>> \o UnchangedLines(lists.unchanged)
        ELSE <<>>)

\* the names the explored documents use, in the order sorted() gives them
SortedNames == <<"BM_1", "BM_2", "BM_3", "BM_4", "BM_5", "BM_6", "BM_7",
                 "index", "parse_csv">>

\* sorted(names)
sorted(names) == SelectSeq(SortedNames, LAMBDA n : n \in names)

\* mutant: the two set differences swapped
only_in_baseline_swapped(cur, base) == Keys(cur) \ Keys(base)

\* only_in_current = current_names - baseline_names
only_in_current(cur, base) == Keys(cur) \ Keys(base)

\* only_in_baseline = baseline_names - current_names
only_in_baseline(cur, base) == Keys(base) \ Keys(cur)

\* the name mismatch warning; the names of each printed list are kept as one
\* line per name, in the order of the list
Mismatch(cur, base) ==
    IF only_in_current(cur, base) # {} \/ only_in_baseline(cur, base) # {}
    THEN <<Line("WARNING: Benchmark name mismatch detected!")>>
         \o [i \in DOMAIN sorted(only_in_current(cur, base)) |->
               NameLine("only in current (new)",
                        sorted(only_in_current(cur, base))[i])]
         \o [i \in DOMAIN sorted(only_in_baseline(cur, base)) |->
               NameLine("only in baseline (removed)",
                        sorted(only_in_baseline(cur, base))[i])]
    ELSE <<>>

\* mutant: relative mode falls through to the establish-the-baseline path
BaselineRequired_never == FALSE

\* if relative_mode: "BASE benchmark results not found!", sys.exit(1)
BaselineRequired == relative_mode

\* main up to the two load_benchmark calls
MainLoad ==
    /\ pc = "start"
    /\ LET cur == IF script = "libvroom"
                  THEN load_benchmark(fs[head_path], TRUE)
                  ELSE B_load_benchmark(fs[head_path], TRUE)
           bas == IF script = "libvroom"
                  THEN load_benchmark(fs[base_path], FALSE)
                  ELSE B_load_benchmark(fs[base_path], FALSE)
       IN  /\ current' = cur.results
           /\ time_unit' = cur.time_unit
           /\ baseline' = bas.results
           /\ out' = out \o cur.lines \o bas.lines
    /\ pc' = "loaded"
    /\ UNCHANGED <<script, environ, args, fs, cmp, exit_code, copies,
                   call, ret, hyp_results, analyses>>

\* if current is None: sys.exit(1)
MainCurrentNone ==
    /\ pc = "loaded"
    /\ current.none
    /\ out' = Append(out, Line("ERROR: Current benchmark results not found or invalid!"))
    /\ exit_code' = 1
    /\ pc' = "exited"
    /\ UNCHANGED <<script, environ, args, fs, current, time_unit, baseline,
                   cmp, copies, call, ret, hyp_results, analyses>>

\* if len(current) < EXPECTED_BENCHMARK_COUNT: sys.exit(1)
MainTooFew ==
    /\ pc = "loaded"
    /\ ~current.none
    /\ HasTooFew(current.items)
    /\ out' = Append(out, Line("ERROR: Expected at least"))
    /\ exit_code' = 1
    /\ pc' = "exited"
    /\ UNCHANGED <<script, environ, args, fs, current, time_unit, baseline,
                   cmp, copies, call, ret, hyp_results, analyses>>

\* if baseline is None: ...
MainNoBaseline ==
    /\ pc = "loaded"
    /\ ~current.none
    /\ ~HasTooFew(current.items)
    /\ baseline.none
    /\ IF BaselineRequired
       THEN /\ out' = Append(out, Line("ERROR: BASE benchmark results not found!"))
            /\ exit_code' = 1
            /\ UNCHANGED <<fs, copies>>
       ELSE /\ exit_code' = 0
            /\ IF is_main_push
               THEN /\ fs' = Copy(fs)
                    /\ copies' = copies + 1
                    /\ out' = out \o <<Line("No baseline found"),
                                       Line("Baseline saved")>>
               ELSE /\ out' = out \o <<Line("No baseline found"),
                                       Line("Skipping baseline save")>>
                    /\ UNCHANGED <<fs, copies>>
    /\ pc' = "exited"
    /\ UNCHANGED <<script, environ, args, current, time_unit, baseline, cmp,
                   call, ret, hyp_results, analyses>>

\* else: compare_benchmarks, the listings, and the verdict
MainCompare ==
    /\ pc = "loaded"
    /\ ~current.none
    /\ ~HasTooFew(current.items)
    /\ ~baseline.none
    /\ LET lists == IF script = "libvroom"
                    THEN compare_benchmarks(baseline.items, current.items,
                                            time_unit_or_ns, threshold)
                    ELSE B_compare_benchmarks(baseline.items, current.items)
           mismatch == IF script = "libvroom"
                       THEN Mismatch(current.items, baseline.items)
                       ELSE <<>>
       IN  /\ cmp' = [called |-> TRUE, lists |-> lists]
           /\ IF lists.raised
              THEN /\ exit_code' = 1
                   /\ out' = out \o mismatch \o <<Line("Traceback")>>
                   /\ UNCHANGED <<fs, copies>>
              ELSE IF lists.regressions = <<>>
              THEN /\ exit_code' = ExitStatus(lists.regressions)
                   /\ IF is_main_push /\ ~relative_mode
                      THEN /\ fs' = Copy(fs)
                           /\ copies' = copies + 1
                           /\ out' = out \o mismatch \o Listing(lists)
                                     \o <<Line("Baseline updated"),
                                          Line("SUCCESS")>>
                      ELSE /\ out' = out \o mismatch \o Listing(lists)
                                     \o <<Line("SUCCESS")>>
                           /\ UNCHANGED <<fs, copies>>
              ELSE /\ exit_code' = ExitStatus(lists.regressions)
                   /\ out' = out \o mismatch \o Listing(lists)
                             \o <<Line("FAILURE"), Line("regression=true")>>
                   /\ UNCHANGED <<fs, copies>>
    /\ pc' = "exited"
    /\ UNCHANGED <<script, environ, args, current, time_unit, baseline,
                   call, ret, hyp_results, analyses>>

----------------------------------------------------------------------------
(* The runs of main that are explored *)

\* how many of the expected benchmarks a document may lack
MaxMissing == 1

Running == 0 - 1

HEAD_ARG == "head.json"
BASE_ARG == "base.json"
Paths == {HEAD_PATH, BASE_PATH, HEAD_ARG, BASE_ARG}

Scripts == {"libvroom", "benchmark"}
Events == {"push", "pull_request"}
Refs == {"refs/heads/main", "refs/heads/master", "refs/heads/feature"}
Units == {"ns", "ms"}

Bench(name, real_time, unit) ==
    [name |-> name, real_time |-> <<real_time>>, time_unit |-> <<unit>>,
     aggregate_name |-> "", error_occurred |-> FALSE, error_message |-> <<>>]

\* the benchmarks every run is expected to hold, each well above 1 ms
SuiteNames == <<"BM_1", "BM_2", "BM_3", "BM_4", "BM_5", "BM_6", "BM_7">>
SuiteTime == 2 * MIN_TIME_THRESHOLD_NS
Suite(k, unit) == [i \in 1..k |-> Bench(SuiteNames[i], SuiteTime, unit)]

\* one more benchmark, parse_csv, around the 1 ms floor in ns
MainTimes == {0, MIN_TIME_THRESHOLD_NS - 1, MIN_TIME_THRESHOLD_NS,
              MIN_TIME_THRESHOLD_NS + MIN_TIME_THRESHOLD_NS \div 5}
Extras(unit) ==
    {<<>>}
    \cup {<<Bench("parse_csv", t, unit)>> : t \in MainTimes}
    \cup {<<[Bench("parse_csv", MIN_TIME_THRESHOLD_NS, unit)
              EXCEPT !.aggregate_name = "mean"]>>,
          <<[Bench("parse_csv", MIN_TIME_THRESHOLD_NS, unit)
              EXCEPT !.error_occurred = TRUE, !.error_message = <<"timeout">>]>>}

\* a document none of whose entries is usable: an aggregate and an errored one
NoUsable ==
    Json(<<[Bench("parse_csv", MIN_TIME_THRESHOLD_NS, "ns")
             EXCEPT !.aggregate_name = "mean"],
           [Bench("parse_csv", MIN_TIME_THRESHOLD_NS, "ns")
             EXCEPT !.error_occurred = TRUE, !.error_message = <<"timeout">>]>>)

MainFiles(expected) ==
    {Absent, Malformed, NoUsable}
    \cup UNION {{Json(Suite(k, unit) \o extra) :
                    k \in (expected - MaxMissing)..expected,
                    extra \in Extras(unit)} : unit \in Units}

MainArgs(sc) ==
    IF sc = "libvroom"
    THEN [head : {<<>>, <<HEAD_ARG>>}, base : {<<>>, <<BASE_ARG>>},
          threshold : {REGRESSION_THRESHOLD, B_REGRESSION_THRESHOLD}]
    ELSE {[head |-> <<>>, base |-> <<>>, threshold |-> B_REGRESSION_THRESHOLD]}

NoCall == [fn |-> "none"]

Init ==
    /\ pc = "start"
    /\ script \in Scripts
    /\ environ \in [GITHUB_EVENT_NAME : Events, GITHUB_REF : Refs]
    /\ args \in MainArgs(script)
    /\ \E h \in MainFiles(ExpectedCount), b \in MainFiles(ExpectedCount) :
          fs = [p \in Paths |-> IF p = head_path THEN h
                                ELSE IF p = base_path THEN b ELSE Absent]
    /\ current = None
    /\ time_unit = <<>>
    /\ baseline = None
    /\ cmp = [called |-> FALSE, lists |-> NoLists]
    /\ exit_code = Running
    /\ out = <<>>
    /\ copies = 0
    /\ call = NoCall
    /\ ret = NoCall
    /\ hyp_results = <<>>
    /\ analyses = <<>>

Next ==
    \/ MainLoad
    \/ MainCurrentNone
    \/ MainTooFew
    \/ MainNoBaseline
    \/ MainCompare

Spec == Init /\ [][Next]_vars

----------------------------------------------------------------------------
(* Single calls of load_benchmark *)

\* longest document handed to a single load_benchmark call
MaxLen == 3

\* the variables of main, at rest while a single function is called
MainIdle ==
    /\ script = "libvroom"
    /\ environ = [GITHUB_EVENT_NAME |-> "push", GITHUB_REF |-> "refs/heads/main"]
    /\ args = [head |-> <<>>, base |-> <<>>, threshold |-> REGRESSION_THRESHOLD]
    /\ fs = [p \in Paths |-> Absent]
    /\ current = None
    /\ time_unit = <<>>
    /\ baseline = None
    /\ cmp = [called |-> FALSE, lists |-> NoLists]
    /\ exit_code = Running
    /\ out = <<>>
    /\ copies = 0
    /\ hyp_results = <<>>
    /\ analyses = <<>>

UNCHANGED_main ==
    UNCHANGED <<script, environ, args, fs, current, time_unit, baseline, cmp,
                exit_code, out, copies, hyp_results, analyses>>

LoadEntries ==
    {Bench(n, t, "ms") : n \in {"parse_csv", "index"}, t \in {1, 4}}
    \cup {Bench("parse_csv", 2, "us"),
          [Bench("index", 2, "ms") EXCEPT !.time_unit = <<>>],
          [Bench("parse_csv", 7, "s") EXCEPT !.real_time = <<>>],
          [Bench("parse_csv", 7, "s") EXCEPT !.aggregate_name = "mean"],
          [Bench("parse_csv", 7, "s") EXCEPT !.error_message = <<"">>],
          [Bench("parse_csv", 7, "s") EXCEPT !.error_occurred = TRUE],
          [Bench("index", 7, "s") EXCEPT !.error_message = <<"oom">>],
          [Bench("index", 7, "s") EXCEPT !.error_occurred = TRUE,
                                         !.error_message = <<"oom">>,
                                         !.aggregate_name = "mean"]}

LoadFiles ==
    {Absent, Malformed}
    \cup UNION {{Json(b) : b \in [1..n -> LoadEntries]} : n \in 0..MaxLen}

LoadInit ==
    /\ pc = "call"
    /\ MainIdle
    /\ call \in [fn : {"load_benchmark", "B_load_benchmark"},
                 file : LoadFiles, check_errors : BOOLEAN]
    /\ ret = LoadFailed(<<>>)

CallLoad ==
    /\ pc = "call"
    /\ call.fn = "load_benchmark"
    /\ ret' = load_benchmark(call.file, call.check_errors)
    /\ pc' = "returned"
    /\ UNCHANGED call
    /\ UNCHANGED_main

CallBLoad ==
    /\ pc = "call"
    /\ call.fn = "B_load_benchmark"
    /\ ret' = B_load_benchmark(call.file, call.check_errors)
    /\ pc' = "returned"
    /\ UNCHANGED call
    /\ UNCHANGED_main

LoadNext == CallLoad \/ CallBLoad

SpecLoad == LoadInit /\ [][LoadNext]_vars

----------------------------------------------------------------------------
(* Single calls of compare_benchmarks and detect_regressions *)

CmpNames == {"parse_csv", "index"}
CmpUnits == {"ns", "us", "ms", "s", "min"}
CmpThresholds == {REGRESSION_THRESHOLD, B_REGRESSION_THRESHOLD}
DetectPercents == {<<10, 1>>, <<15, 1>>}

\* baseline values around the floor f: below zero, zero, half the floor, the
\* floor, one above it, ten times it
BaseValues(f) ==
    {RNeg(f), <<0, 1>>, RMul(f, <<1, 2>>), f, Frac(f[1] + f[2], f[2]),
     RMul(f, <<10, 1>>)}

\* current values: -20%, -15%, -10%, +5%, +10%, +15%, +20% of ten times f
CurValues(f) ==
    {RMul(f, <<k, 2>>) : k \in {16, 17, 18, 21, 22, 23, 24}}

\* the dicts over CmpNames with values in V, in every insertion order
Dicts(V) ==
    {<<>>}
    \cup {<<[name |-> n, val |-> v]>> : n \in CmpNames, v \in V}
    \cup UNION {{<<[name |-> n, val |-> v], [name |-> m, val |-> w]>> :
                    m \in CmpNames \ {n}, v \in V, w \in V} : n \in CmpNames}

\* the same dicts in one insertion order
DictsOneOrder(V) ==
    {d \in Dicts(V) : Len(d) = 2 => d[1].name = "parse_csv"}

Benchmarks(d) ==
    [i \in DOMAIN d |-> [name |-> d[i].name, real_time |-> d[i].val]]

CompareCalls ==
    UNION {[fn : {"compare_benchmarks"},
            baseline : DictsOneOrder(BaseValues(MIN_TIME_THRESHOLD(u))),
            current : Dicts(CurValues(MIN_TIME_THRESHOLD(u))),
            time_unit : {u}, threshold : CmpThresholds] : u \in CmpUnits}
    \cup [fn : {"B_compare_benchmarks"},
          baseline : DictsOneOrder(BaseValues(<<MIN_TIME_THRESHOLD_NS, 1>>)),
          current : Dicts(CurValues(<<MIN_TIME_THRESHOLD_NS, 1>>)),
          time_unit : {"ns"}, threshold : {B_REGRESSION_THRESHOLD}]

DetectCalls ==
    [fn : {"detect_regressions"},
     baseline : {<<>>} \cup
                {<<Benchmarks(d)>> :
                   d \in DictsOneOrder(BaseValues(<<MIN_TIME_THRESHOLD_NS, 1>>))},
     current : {Benchmarks(d) :
                  d \in Dicts(CurValues(<<MIN_TIME_THRESHOLD_NS, 1>>))},
     time_unit : {"ns"}, threshold : DetectPercents]

CompareInit ==
    /\ pc = "call"
    /\ MainIdle
    /\ call \in CompareCalls \cup DetectCalls
    /\ ret = NoLists

CallCompare ==
    /\ pc = "call"
    /\ call.fn = "compare_benchmarks"
    /\ ret' = compare_benchmarks(call.baseline, call.current, call.time_unit,
                                 call.threshold)
    /\ pc' = "returned"
    /\ UNCHANGED call
    /\ UNCHANGED_main

CallBCompare ==
    /\ pc = "call"
    /\ call.fn = "B_compare_benchmarks"
    /\ ret' = B_compare_benchmarks(call.baseline, call.current)
    /\ pc' = "returned"
    /\ UNCHANGED call
    /\ UNCHANGED_main

CallDetect ==
    /\ pc = "call"
    /\ call.fn = "detect_regressions"
    /\ ret' = detect_regressions(call.baseline, call.current, call.threshold)
    /\ pc' = "returned"
    /\ UNCHANGED call
    /\ UNCHANGED_main

CompareNext == CallCompare \/ CallBCompare \/ CallDetect

SpecCompare == CompareInit /\ [][CompareNext]_vars

----------------------------------------------------------------------------
(* Properties of main (specification Spec) *)

NamesOf(list) == {list[i].name : i \in DOMAIN list}
HasLine(tag) == \E i \in DOMAIN out : out[i].tag = tag

\* (c - b) / b > t and (c - b) / b < -t for fractions b > 0, c, t, by cross
\* multiplication
Exceeds(b, c, t) == (c[1] * b[2] - b[1] * c[2]) * t[2] > t[1] * b[1] * c[2]
Undercuts(b, c, t) == (c[1] * b[2] - b[1] * c[2]) * t[2] < (0 - t[1]) * b[1] * c[2]

MainPush ==
    /\ environ.GITHUB_EVENT_NAME = "push"
    /\ environ.GITHUB_REF \in {"refs/heads/main", "refs/heads/master"}

\* the floor the run compares against
RunFloor == IF script = "libvroom" THEN MIN_TIME_THRESHOLD(time_unit_or_ns)
            ELSE <<MIN_TIME_THRESHOLD_NS, 1>>

RunExpected == IF script = "libvroom" THEN EXPECTED_BENCHMARK_COUNT
               ELSE B_EXPECTED_BENCHMARK_COUNT

\* C1 as stated: a run of main exits non-zero exactly when its regressions
\* list is non-empty.
C1_ExitIffRegressions ==
    pc = "exited" => (exit_code # 0 <=> cmp.lists.regressions # <<>>)

\* C1 amended: a run with a non-empty regressions list exits non-zero; a run
\* that reached compare_benchmarks exits non-zero only with a non-empty
\* regressions list; every other non-zero exit happened before the comparison,
\* because current is None, has too few names, or (relative mode) the baseline
\* is None.
C1_ExitIffRegressionsOrEarlyError ==
    pc = "exited" =>
        /\ cmp.lists.regressions # <<>> => exit_code # 0
        /\ cmp.called => (exit_code # 0 <=> cmp.lists.regressions # <<>>)
        /\ (exit_code # 0 /\ ~cmp.called) =>
              \/ current.none
              \/ Cardinality(Keys(current.items)) < RunExpected
              \/ (baseline.none /\ script = "libvroom"
                  /\ args.head # <<>> /\ args.base # <<>>)

C1_Witness ==
    /\ pc = "exited"
    /\ cmp.called
    /\ cmp.lists.regressions # <<>>
    /\ exit_code = 1

\* C4: a name in both sets whose baseline value is <= 0 or below the noise
\* floor is skipped whatever its current value, no division by zero occurs,
\* and the run passes when no name outside skipped slowed down by more than
\* the threshold.
C4_SkippedNeverDecides ==
    (pc = "exited" /\ cmp.called) =>
        /\ ~cmp.lists.raised
        /\ \A i \in DOMAIN current.items :
             LET n == current.items[i].name
             IN  (HasKey(baseline.items, n)
                  /\ (Get(baseline.items, n)[1] <= 0
                      \/ RLt(Get(baseline.items, n), RunFloor)))
                 => /\ n \in NamesOf(cmp.lists.skipped)
                    /\ n \notin NamesOf(cmp.lists.regressions)
                                \cup NamesOf(cmp.lists.improvements)
                                \cup NamesOf(cmp.lists.unchanged)
        /\ (\A i \in DOMAIN current.items :
              LET n == current.items[i].name
              IN  (HasKey(baseline.items, n)
                   /\ Get(baseline.items, n)[1] > 0
                   /\ ~RLt(Get(baseline.items, n), RunFloor))
                  => ~Exceeds(Get(baseline.items, n), current.items[i].val,
                              threshold))
           => exit_code = 0

\* a passing run that skipped parse_csv although it went from 0 to 1.2 ms
C4_Witness ==
    /\ pc = "exited"
    /\ exit_code = 0
    /\ \E i \in DOMAIN cmp.lists.skipped :
          /\ cmp.lists.skipped[i].base[1] = 0
          /\ cmp.lists.skipped[i].curr[1] > MIN_TIME_THRESHOLD_NS

\* C6: the baseline file is overwritten only in a run that found no
\* regressions and is a push to main or master; a run that exits non-zero
\* has not written it.
C6_BaselineWriteGuarded ==
    /\ copies > 0 =>
          /\ cmp.lists.regressions = <<>>
          /\ MainPush
          /\ exit_code = 0
          /\ fs[BASE_PATH] = fs[HEAD_PATH]
    /\ (pc = "exited" /\ exit_code # 0) => copies = 0

C6_Witness ==
    /\ pc = "exited"
    /\ copies = 1
    /\ cmp.called
    /\ cmp.lists.improvements # <<>>

\* C7: when the current or the baseline document is not parseable JSON the
\* run neither succeeds nor overwrites the baseline.
C7_MalformedNeverSucceeds ==
    (pc = "exited" /\ HasLine("parse_error")) =>
        (exit_code # 0 /\ copies = 0)

\* C8: a run whose normalized current results hold fewer distinct names than
\* expected exits non-zero without calling compare_benchmarks or shutil.copy.
C8_TooFewIsFatal ==
    (pc = "exited" /\ ~current.none
     /\ Cardinality(Keys(current.items)) < RunExpected) =>
        /\ exit_code # 0
        /\ ~cmp.called
        /\ copies = 0

\* one benchmark short, on a main push with a usable baseline
C8_Witness ==
    /\ pc = "exited"
    /\ ~current.none
    /\ Cardinality(Keys(current.items)) = RunExpected - 1
    /\ ~baseline.none
    /\ MainPush
    /\ exit_code = 1

----------------------------------------------------------------------------
(* Properties of compare_benchmarks and detect_regressions (specification  *)
(* SpecCompare)                                                            *)

IsCompareCall == call.fn \in {"compare_benchmarks", "B_compare_benchmarks"}

\* the baseline and current of the call as name -> value items
CallBaseline ==
    IF call.fn # "detect_regressions" THEN call.baseline
    ELSE IF call.baseline = <<>> THEN <<>>
    ELSE [i \in DOMAIN call.baseline[1] |->
            [name |-> call.baseline[1][i].name,
             val |-> call.baseline[1][i].real_time]]

CallCurrent ==
    IF call.fn # "detect_regressions" THEN call.current
    ELSE [i \in DOMAIN call.current |->
            [name |-> call.current[i].name, val |-> call.current[i].real_time]]

\* the floor of the call: 1 ms in the call's unit for libvroom (1 for a unit
\* it does not know), 1 ms in nanoseconds for the older script and the detector
CallFloor ==
    IF call.fn = "compare_benchmarks" THEN MIN_TIME_THRESHOLD(call.time_unit)
    ELSE <<MIN_TIME_THRESHOLD_NS, 1>>

OneAbove(f) == Frac(f[1] + f[2], f[2])

\* C2: a name in both sets with an eligible baseline is a regression iff its
\* ratio exceeds the threshold, an improvement iff its ratio is below minus
\* the threshold, and unchanged otherwise; a ratio of exactly plus or minus
\* the threshold is unchanged.
C2_Classification ==
    (pc = "returned" /\ IsCompareCall) =>
        \A i \in DOMAIN call.current :
            LET n == call.current[i].name
                c == call.current[i].val
            IN  HasKey(call.baseline, n) =>
                LET b == Get(call.baseline, n)
                    up == Exceeds(b, c, call.threshold)
                    down == Undercuts(b, c, call.threshold)
                IN  (b[1] > 0 /\ ~RLt(b, CallFloor)) =>
                      /\ n \in NamesOf(ret.regressions) <=> up
                      /\ n \in NamesOf(ret.improvements) <=> down
                      /\ n \in NamesOf(ret.unchanged) <=> (~up /\ ~down)
                      /\ \A j \in DOMAIN ret.unchanged :
                            ret.unchanged[j].name = n =>
                               ret.unchanged[j].ratio = <<Ratio(b, c)>>

\* Scenarios A and B at threshold 0.10 in ms: 10 -> 12 is a regression with
\* ratio 0.20, 10 -> 11 (exactly +10%) is unchanged
C2_Witness ==
    /\ pc = "returned"
    /\ call.fn = "compare_benchmarks"
    /\ call.time_unit = "ms"
    /\ call.threshold = B_REGRESSION_THRESHOLD
    /\ \E i \in DOMAIN ret.regressions :
          /\ ret.regressions[i].base = <<<<10, 1>>>>
          /\ ret.regressions[i].curr = <<<<12, 1>>>>
          /\ ret.regressions[i].ratio = <<<<1, 5>>>>
    /\ \E i \in DOMAIN ret.unchanged :
          /\ ret.unchanged[i].base = <<<<10, 1>>>>
          /\ ret.unchanged[i].curr = <<<<11, 1>>>>
          /\ ret.unchanged[i].ratio = <<<<1, 10>>>>

\* C3 as stated: a baseline value exactly equal to the noise floor is
\* skipped, one unit above the floor it is not.
C3_AtFloorSkipped ==
    pc = "returned" =>
        \A i \in DOMAIN CallCurrent :
            LET n == CallCurrent[i].name
            IN  HasKey(CallBaseline, n) =>
                  /\ Get(CallBaseline, n) = CallFloor
                        => n \in NamesOf(ret.skipped)
                  /\ Get(CallBaseline, n) = OneAbove(CallFloor)
                        => n \notin NamesOf(ret.skipped)

\* C3 amended: a baseline value exactly equal to the noise floor is not
\* skipped but eligible for classification, as is one unit above the floor;
\* a baseline value strictly below the floor is skipped.
C3_AtFloorEligible ==
    pc = "returned" =>
        \A i \in DOMAIN CallCurrent :
            LET n == CallCurrent[i].name
            IN  HasKey(CallBaseline, n) =>
                LET b == Get(CallBaseline, n)
                IN  /\ (b = CallFloor \/ b = OneAbove(CallFloor)) =>
                          /\ n \notin NamesOf(ret.skipped)
                          /\ IsCompareCall =>
                                n \in NamesOf(ret.regressions)
                                      \cup NamesOf(ret.improvements)
                                      \cup NamesOf(ret.unchanged)
                          /\ ~IsCompareCall =>
                                (n \in NamesOf(ret.regressions) <=>
                                   Exceeds(b, CallCurrent[i].val,
                                           <<call.threshold[1],
                                             100 * call.threshold[2]>>))
                    /\ RLt(b, CallFloor) => n \in NamesOf(ret.skipped)

\* both names shared, one baseline at the floor and one just above it, both
\* classified
C3_Witness ==
    /\ pc = "returned"
    /\ Len(CallBaseline) = 2
    /\ CallBaseline[1].val = CallFloor
    /\ CallBaseline[2].val = OneAbove(CallFloor)
    /\ Keys(CallCurrent) = Keys(CallBaseline)
    /\ Len(ret.regressions) = 2
    /\ ret.skipped = <<>>

\* C5 as stated: a name of current that is absent from baseline lands in a
\* bucket of its own, outside regressions, improvements, unchanged and
\* skipped.
C5_NewOutsideTheFourLists ==
    (pc = "returned" /\ IsCompareCall) =>
        \A i \in DOMAIN call.current :
            ~HasKey(call.baseline, call.current[i].name) =>
                call.current[i].name \notin
                    NamesOf(ret.regressions) \cup NamesOf(ret.improvements)
                    \cup NamesOf(ret.unchanged) \cup NamesOf(ret.skipped)

\* C5 amended: a name of current that is absent from baseline is appended to
\* the unchanged list as (name, curr_time, None, None): no ratio is computed
\* for it, it is in none of regressions, improvements and skipped, and the
\* tuples of unchanged without a ratio are exactly these names.
C5_NewInUnchangedWithoutRatio ==
    (pc = "returned" /\ IsCompareCall) =>
        /\ \A i \in DOMAIN call.current :
             LET n == call.current[i].name
             IN  ~HasKey(call.baseline, n) =>
                   /\ n \notin NamesOf(ret.regressions)
                               \cup NamesOf(ret.improvements)
                               \cup NamesOf(ret.skipped)
                   /\ \E j \in DOMAIN ret.unchanged :
                         ret.unchanged[j] =
                            [name |-> n, base |-> <<call.current[i].val>>,
                             curr |-> <<>>, ratio |-> <<>>]
                   /\ \A j \in DOMAIN ret.unchanged :
                         ret.unchanged[j].name = n
                            => ret.unchanged[j].ratio = <<>>
        /\ \A j \in DOMAIN ret.unchanged :
             ret.unchanged[j].ratio = <<>>
                => ~HasKey(call.baseline, ret.unchanged[j].name)

\* one new name next to a compared one
C5_Witness ==
    /\ pc = "returned"
    /\ IsCompareCall
    /\ Len(call.current) = 2
    /\ Len(call.baseline) = 1
    /\ \E j \in DOMAIN ret.unchanged : ret.unchanged[j].ratio = <<>>
    /\ ret.regressions # <<>>

----------------------------------------------------------------------------
(* Properties of load_benchmark (specification SpecLoad) *)

\* an entry with error_occurred set or a non-empty error_message
Failing(e) ==
    e.error_occurred \/ e.error_message \notin {<<>>, <<"">>}

FailingEntries(benchmarks) == SelectSeq(benchmarks, Failing)

\* the real_time values of the entries named n that are taken or left out by
\* keep
TimesOf(benchmarks, n, keep(_)) ==
    LET kept == SelectSeq(benchmarks,
                          LAMBDA e : e.name = n /\ e.real_time # <<>> /\ keep(e))
    IN  [i \in DOMAIN kept |-> kept[i].real_time[1]]

Primitive(e) == e.aggregate_name = "" /\ ~Failing(e)

DocNames(benchmarks) == {benchmarks[i].name : i \in DOMAIN benchmarks}

\* C9: without check_errors no failing entry reaches the returned set: a name
\* is returned iff it has an entry that is not failing (and is primitive),
\* with the mean over those entries only; with check_errors any failing entry
\* makes the call return None, after it listed the name and the message of
\* every failing entry.
C9_ErroredExcludedOrFatal ==
    (pc = "returned" /\ call.file.kind = "json") =>
        LET failing == FailingEntries(call.file.benchmarks)
        IN  /\ (call.check_errors /\ failing # <<>>) =>
                  /\ ret.results.none
                  /\ Len(ret.lines) = 1 + Len(failing)
                  /\ \A i \in DOMAIN failing :
                        /\ ret.lines[i + 1].name = failing[i].name
                        /\ ret.lines[i + 1].msg =
                              (IF failing[i].error_message = <<>>
                               THEN "Unknown error"
                               ELSE failing[i].error_message[1])
            /\ (~call.check_errors \/ failing = <<>>) =>
                  /\ ~ret.results.none
                  /\ ret.lines = <<>>
                  /\ \A n \in DocNames(call.file.benchmarks) :
                        LET ok == TimesOf(call.file.benchmarks, n, Primitive)
                        IN  IF ok = <<>>
                            THEN ~HasKey(ret.results.items, n)
                            ELSE /\ HasKey(ret.results.items, n)
                                 /\ Get(ret.results.items, n)
                                       = Frac(SumSeq(ok), Len(ok))

\* a strict call that failed on two failing entries next to a valid one
C9_Witness ==
    /\ pc = "returned"
    /\ call.check_errors
    /\ call.file.kind = "json"
    /\ Len(FailingEntries(call.file.benchmarks)) = 2
    /\ Len(call.file.benchmarks) = 3
    /\ ret.results.none
    /\ Len(ret.lines) = 3

\* the entries that contribute to the mean of name n: primitive, not failing,
\* carrying a real_time
Contributing(benchmarks, n) ==
    {i \in DOMAIN benchmarks :
        /\ benchmarks[i].name = n
        /\ benchmarks[i].aggregate_name = ""
        /\ ~Failing(benchmarks[i])
        /\ benchmarks[i].real_time # <<>>}

RECURSIVE SumAt(_, _)
SumAt(benchmarks, idx) ==
    IF idx = {} THEN 0
    ELSE LET i == CHOOSE j \in idx : TRUE
         IN  benchmarks[i].real_time[1] + SumAt(benchmarks, idx \ {i})

\* C10: each returned name maps to the arithmetic mean of real_time over
\* exactly its primitive, not failing entries: sum over them divided by their
\* number; entries with an aggregate_name contribute to no mean.
C10_MeanOfPrimitiveEntries ==
    (pc = "returned" /\ ~ret.results.none) =>
        /\ Keys(ret.results.items) =
              {n \in DocNames(call.file.benchmarks) :
                  Contributing(call.file.benchmarks, n) # {}}
        /\ \A i \in DOMAIN ret.results.items :
              LET idx == Contributing(call.file.benchmarks,
                                      ret.results.items[i].name)
                  mean == ret.results.items[i].val
              IN  /\ mean[2] > 0
                  /\ mean[1] * Cardinality(idx)
                        = mean[2] * SumAt(call.file.benchmarks, idx)

\* parse_csv ran twice (1 and 4) next to an aggregate entry of 7: mean 5/2
C10_Witness ==
    /\ pc = "returned"
    /\ ~ret.results.none
    /\ Cardinality(Contributing(call.file.benchmarks, "parse_csv")) = 2
    /\ \E i \in DOMAIN call.file.benchmarks :
          /\ call.file.benchmarks[i].name = "parse_csv"
          /\ call.file.benchmarks[i].aggregate_name # ""
    /\ HasKey(ret.results.items, "parse_csv")
    /\ Get(ret.results.items, "parse_csv") = <<5, 2>>

----------------------------------------------------------------------------
(* Further properties of main (specification Spec) *)

\* C11: a document with zero usable entries is not accepted as a record set:
\* no run ends with status 0 after it took a baseline that load_benchmark
\* returned as an empty mapping.
C11_EmptyBaselineNeverPasses ==
    (pc = "exited" /\ ~baseline.none /\ baseline.items = <<>>) =>
        exit_code # 0

\* C12: in relative mode (--head and --base both given) a run whose base
\* document is absent or malformed ends with a non-zero status, never calls
\* compare_benchmarks and never takes the establish-the-baseline path (no
\* "No baseline found" line, no copy).
C12_RelativeNeedsBaseline ==
    (/\ pc = "exited"
     /\ script = "libvroom"
     /\ args.head # <<>> /\ args.base # <<>>
     /\ fs[args.base[1]].kind # "json") =>
        /\ exit_code # 0
        /\ ~cmp.called
        /\ copies = 0
        /\ ~HasLine("No baseline found")
        /\ ~HasLine("Baseline saved")

\* a relative run with a complete head document and a malformed base document
C12_Witness ==
    /\ pc = "exited"
    /\ args.head # <<>> /\ args.base # <<>>
    /\ fs[BASE_ARG] = Malformed
    /\ ~current.none
    /\ ~HasTooFew(current.items)
    /\ HasLine("ERROR: BASE benchmark results not found!")
    /\ exit_code = 1

\* the baseline without the names that current lacks
WithoutRemoved ==
    SelectSeq(baseline.items, LAMBDA it : HasKey(current.items, it.name))

\* C13: a name that only the baseline holds is in none of the four lists of
\* compare_benchmarks, the lists and the exit status are what they would be
\* had the baseline never held the name, and main of the libvroom script
\* prints exactly these names as "only in baseline (removed)".
C13_RemovedOnlyReported ==
    (pc = "exited" /\ cmp.called) =>
        LET removed == Keys(baseline.items) \ Keys(current.items)
            again == IF script = "libvroom"
                     THEN compare_benchmarks(WithoutRemoved, current.items,
                                             time_unit_or_ns, threshold)
                     ELSE B_compare_benchmarks(WithoutRemoved, current.items)
        IN  /\ removed \cap (NamesOf(cmp.lists.regressions)
                             \cup NamesOf(cmp.lists.improvements)
                             \cup NamesOf(cmp.lists.unchanged)
                             \cup NamesOf(cmp.lists.skipped)) = {}
            /\ cmp.lists = again
            /\ exit_code = (IF again.raised \/ again.regressions # <<>>
                            THEN 1 ELSE 0)
            /\ script = "libvroom" =>
                  {out[i].name : i \in {j \in DOMAIN out :
                        out[j].tag = "only in baseline (removed)"}} = removed

\* a passing run of the libvroom script whose baseline holds parse_csv and
\* one suite benchmark that current lacks, both printed as removed
C13_Witness ==
    /\ pc = "exited"
    /\ cmp.called
    /\ script = "libvroom"
    /\ exit_code = 0
    /\ Cardinality(Keys(baseline.items) \ Keys(current.items)) = 1
    /\ "parse_csv" \in Keys(baseline.items) \ Keys(current.items)
    /\ \E i \in DOMAIN out :
          out[i] = NameLine("only in baseline (removed)", "parse_csv")

----------------------------------------------------------------------------
(* Further properties of compare_benchmarks (specification SpecCompare) *)

Reverse(s) == [i \in DOMAIN s |-> s[Len(s) + 1 - i]]

\* the tuples of a list, their order left aside
AsSet(list) == {list[i] : i \in DOMAIN list}

\* the call's function on another baseline, current and threshold
CompareAgain(base, curr, t) ==
    IF call.fn = "compare_benchmarks"
    THEN compare_benchmarks(base, curr, call.time_unit, t)
    ELSE B_compare_benchmarks(base, curr)

\* C14: the classification does not depend on the insertion order of the two
\* mappings: with either mapping reversed every name is in the same list with
\* the same times and ratio, each name of current is in exactly one list, and
\* the verdict (regressions empty or not) is the same.
C14_OrderIndependent ==
    (pc = "returned" /\ IsCompareCall) =>
        /\ \A b \in {call.baseline, Reverse(call.baseline)},
              c \in {call.current, Reverse(call.current)} :
              LET again == CompareAgain(b, c, call.threshold)
              IN  /\ AsSet(again.regressions) = AsSet(ret.regressions)
                  /\ AsSet(again.improvements) = AsSet(ret.improvements)
                  /\ AsSet(again.unchanged) = AsSet(ret.unchanged)
                  /\ AsSet(again.skipped) = AsSet(ret.skipped)
                  /\ again.raised = ret.raised
                  /\ (again.regressions = <<>>) <=> (ret.regressions = <<>>)
        /\ Len(ret.regressions) + Len(ret.improvements) + Len(ret.unchanged)
              + Len(ret.skipped) = Len(call.current)
        /\ NamesOf(ret.regressions) \cup NamesOf(ret.improvements)
              \cup NamesOf(ret.unchanged) \cup NamesOf(ret.skipped)
              = Keys(call.current)

\* two names, the first of current an improvement and the second a
\* regression, the baseline holding them in the other order
C14_Witness ==
    /\ pc = "returned"
    /\ IsCompareCall
    /\ Len(call.current) = 2
    /\ Len(call.baseline) = 2
    /\ call.current[1].name = call.baseline[2].name
    /\ NamesOf(ret.improvements) = {call.current[1].name}
    /\ NamesOf(ret.regressions) = {call.current[2].name}

\* thresholds from 0 to 100%, the two the calls use among them
MonoThresholds ==
    {<<0, 1>>, <<1, 20>>, B_REGRESSION_THRESHOLD, REGRESSION_THRESHOLD,
     <<1, 5>>, <<1, 1>>}

\* lists a taken at a threshold not above the one of lists b
Monotone(a, b) ==
    /\ NamesOf(b.regressions) \subseteq NamesOf(a.regressions)
    /\ NamesOf(b.improvements) \subseteq NamesOf(a.improvements)
    /\ NamesOf(b.skipped) = NamesOf(a.skipped)
    /\ NamesOf(a.unchanged) \subseteq NamesOf(b.unchanged)

\* C15: for the same baseline and current, a larger threshold only moves
\* names from regressions and improvements to unchanged: against every
\* threshold above (below) the call's, the regressions and the improvements
\* shrink (grow), the skipped names are the same and the unchanged names grow
\* (shrink).
C15_ThresholdMonotone ==
    (pc = "returned" /\ call.fn = "compare_benchmarks") =>
        \A t \in MonoThresholds :
            LET other == compare_benchmarks(call.baseline, call.current,
                                            call.time_unit, t)
            IN  /\ RLe(call.threshold, t) => Monotone(ret, other)
                /\ RLe(t, call.threshold) => Monotone(other, ret)

\* a call at 10% with a regression and an improvement that are both unchanged
\* at 15%
C15_Witness ==
    /\ pc = "returned"
    /\ call.fn = "compare_benchmarks"
    /\ call.threshold = B_REGRESSION_THRESHOLD
    /\ Len(ret.regressions) = 1
    /\ Len(ret.improvements) = 1
    /\ LET other == compare_benchmarks(call.baseline, call.current,
                                       call.time_unit, REGRESSION_THRESHOLD)
       IN  /\ other.regressions = <<>>
           /\ other.improvements = <<>>
           /\ Len(other.unchanged) = 2

----------------------------------------------------------------------------
(* Further properties of load_benchmark (specification SpecLoad) *)

\* a document with exactly one entry per name, each primitive, not failing
\* and carrying a real_time
Normalized(benchmarks) ==
    /\ \A i \in DOMAIN benchmarks :
          Primitive(benchmarks[i]) /\ benchmarks[i].real_time # <<>>
    /\ \A i, j \in DOMAIN benchmarks :
          benchmarks[i].name = benchmarks[j].name => i = j

\* the name -> real_time mapping of a document, in the document's order
Mapping(benchmarks) ==
    [i \in DOMAIN benchmarks |->
        [name |-> benchmarks[i].name, val |-> <<benchmarks[i].real_time[1], 1>>]]

\* the document written from a returned mapping of whole numbers: one entry
\* per name with the value as real_time
Rebuilt(items, unit) ==
    Json([i \in DOMAIN items |->
            [Bench(items[i].name, items[i].val[1], "ns")
                EXCEPT !.time_unit = unit]])

LoadAgain(file) ==
    IF call.fn = "load_benchmark" THEN load_benchmark(file, call.check_errors)
    ELSE B_load_benchmark(file, call.check_errors)

\* C16: for a document with exactly one entry per name, no aggregate and no
\* failing entry, load_benchmark returns exactly the document's
\* name -> real_time mapping and prints nothing, and loading the document
\* rebuilt from the returned mapping returns the same mapping again.
C16_IdempotentOnNormalized ==
    (/\ pc = "returned"
     /\ call.file.kind = "json"
     /\ Normalized(call.file.benchmarks)) =>
        /\ ret.results = Some(Mapping(call.file.benchmarks))
        /\ ret.lines = <<>>
        /\ LoadAgain(Rebuilt(ret.results.items, ret.time_unit)).results
              = ret.results

\* a normalized document of two names
C16_Witness ==
    /\ pc = "returned"
    /\ call.file.kind = "json"
    /\ Normalized(call.file.benchmarks)
    /\ Len(call.file.benchmarks) = 2
    /\ ret.results = Some(<<[name |-> "index", val |-> <<4, 1>>],
                            [name |-> "parse_csv", val |-> <<1, 1>>]>>)

----------------------------------------------------------------------------
(* scripts/analyze_hypotheses.py: the records and their matching *)

\* float('inf'), a fraction with denominator 0; RLt, RGt and RLe order it
\* above every other fraction
Inf == <<1, 0>>

\* a + b on ratios that are never negative
RAdd(a, b) ==
    IF a[2] = 0 \/ b[2] = 0 THEN Inf
    ELSE Frac(a[1] * b[2] + b[1] * a[2], a[2] * b[2])

\* sum(ratios)
RECURSIVE RSum(_)
RSum(ratios) ==
    IF ratios = <<>> THEN <<0, 1>> ELSE RAdd(Head(ratios), RSum(Tail(ratios)))

\* sum(ratios) / len(ratios)
Mean(ratios) ==
    LET total == RSum(ratios)
    IN  IF total[2] = 0 THEN Inf ELSE Frac(total[1], total[2] * Len(ratios))

\* max(ratios)
Max(ratios) ==
    ratios[CHOOSE i \in DOMAIN ratios :
               \A j \in DOMAIN ratios : RLe(ratios[j], ratios[i])]

\* a benchmark name is the name of its function followed by its arguments
\* ("BM_H7_ViaExtractor/1000"); no prefix the script groups by is the
\* beginning of another function's name
Name(function, arguments) == [function |-> function, arguments |-> arguments]

\* name.startswith(prefix)
startswith(name, prefix) == name.function = prefix

counter_keys ==
    {"Rows", "Cols", "Threads", "Accesses", "AccessesPerSec", "RowsPerSec",
     "Fields", "Size_MB", "TypeChanges", "SampleRows", "EscapeCount",
     "TotalFields", "EscapeRatio_Input", "ActualEscapeRatio", "IsFlat",
     "TotalCols", "ColsIterated", "FieldsAccessed", "Stage"}

\* BenchmarkResult.from_json: data.keys are the top-level keys of the entry
\* other than name, real_time and aggregate_name (cpu_time and iterations are
\* stored and never read)
from_json(data) ==
    [name |-> data.name,
     real_time |-> IF data.real_time = <<>> THEN 0 ELSE data.real_time[1],
     counters |-> [k \in DOMAIN data.keys \cap counter_keys |-> data.keys[k]]]

\* load_results after json.load: entries with an aggregate_name are skipped
load_results(benchmarks) ==
    LET kept == SelectSeq(benchmarks, LAMBDA bench : bench.aggregate_name = "")
    IN  [i \in DOMAIN kept |-> from_json(kept[i])]

group_by_prefix(results, prefix) ==
    SelectSeq(results, LAMBDA r : startswith(r.name, prefix))

\* counters.get(key): None is <<>>
get(counters, key) ==
    IF key \in DOMAIN counters THEN <<counters[key]>> ELSE <<>>

\* counters.get(key, 0)
get_or_0(counters, key) ==
    IF key \in DOMAIN counters THEN <<counters[key]>> ELSE <<0>>

\* a / b if b > 0 else float('inf')
RatioOrInf(a, b) == IF b > 0 THEN Frac(a, b) ELSE Inf

\* mutant: the sequential match looks at Rows only
SeqMatch_rowsOnly(nc, wc) ==
    get_or_0(nc.counters, "Rows") = get(wc.counters, "Rows")

\* nc_rows == wc.counters.get('Rows') and nc_threads == wc.counters.get('Threads')
SeqMatch(nc, wc) ==
    /\ get_or_0(nc.counters, "Rows") = get(wc.counters, "Rows")
    /\ get_or_0(nc.counters, "Threads") = get(wc.counters, "Threads")

\* nc_threads == wc.counters.get('Threads') and nc_accesses == wc_accesses
RandMatch(nc, wc) ==
    /\ get_or_0(nc.counters, "Threads") = get(wc.counters, "Threads")
    /\ get_or_0(nc.counters, "Accesses") = get_or_0(wc.counters, "Accesses")

\* direct_bench.counters.get('Rows') == rows, rows being
\* row_bench.counters.get('Rows', 0)
RowsMatch(row_bench, other) ==
    get(other.counters, "Rows") = get_or_0(row_bench.counters, "Rows")

\* cm.counters.get('Rows') == rows and cm.counters.get('Cols') == cols, rows
\* and cols being the first record's counters.get(..., 0)
RowsColsMatch(first, other) ==
    /\ get(other.counters, "Rows") = get_or_0(first.counters, "Rows")
    /\ get(other.counters, "Cols") = get_or_0(first.counters, "Cols")

\* the test of one of the matching loops
Matches(test, a, b) ==
    CASE test = "Rows, Threads" -> SeqMatch(a, b)
      [] test = "Threads, Accesses" -> RandMatch(a, b)
      [] test = "Rows" -> RowsMatch(a, b)
      [] test = "Rows, Cols" -> RowsColsMatch(a, b)

\* the inner loop with its break: the first record of seconds that passes
\* the loop's test against the record a, if any
FirstMatch(a, seconds, test) ==
    LET at == {j \in DOMAIN seconds : Matches(test, a, seconds[j])}
    IN  IF at = {} THEN <<>>
        ELSE <<seconds[CHOOSE j \in at : \A k \in at : j <= k]>>

\* the two nested loops: one pair for every record of firsts that has a match
Pairs(firsts, seconds, test) ==
    LET matched == SelectSeq(firsts,
                             LAMBDA a : FirstMatch(a, seconds, test) # <<>>)
    IN  [i \in DOMAIN matched |->
            [first |-> matched[i],
             second |-> FirstMatch(matched[i], seconds, test)[1]]]

\* a line of analysis['details']: what it is about, the counter values and
\* the times it shows, and the ratio it shows if any
Detail(kind, keys, times, ratio) ==
    [kind |-> kind, keys |-> keys, times |-> times, ratio |-> ratio]

----------------------------------------------------------------------------
(* analyze_h6, analyze_h7 and analyze_h1 *)

\* mutant: the max_seq_ratio clause is missing
H6Confirmed_noMax(avg_seq_ratio, avg_rand_ratio, max_seq_ratio) ==
    RGt(avg_seq_ratio, <<23, 20>>) /\ RGt(avg_rand_ratio, <<3, 2>>)

\* mutant: OR binds tighter than AND
H6Confirmed_orFirst(avg_seq_ratio, avg_rand_ratio, max_seq_ratio) ==
    /\ RGt(avg_seq_ratio, <<23, 20>>)
    /\ (RGt(avg_rand_ratio, <<3, 2>>) \/ RGt(max_seq_ratio, <<7, 5>>))

\* (avg_seq_ratio > 1.15 and avg_rand_ratio > 1.5) or max_seq_ratio > 1.4
H6Confirmed(avg_seq_ratio, avg_rand_ratio, max_seq_ratio) ==
    \/ (RGt(avg_seq_ratio, <<23, 20>>) /\ RGt(avg_rand_ratio, <<3, 2>>))
    \/ RGt(max_seq_ratio, <<7, 5>>)

\* the ratios and the details one of the two matching loops of analyze_h6
\* appends
H6Ratios(pairs) ==
    [i \in DOMAIN pairs |->
        RatioOrInf(pairs[i].first.real_time, pairs[i].second.real_time)]

H6Details(kind, key, pairs) ==
    [i \in DOMAIN pairs |->
        Detail(kind,
               <<get_or_0(pairs[i].first.counters, key)[1],
                 get_or_0(pairs[i].first.counters, "Threads")[1]>>,
               <<pairs[i].first.real_time, pairs[i].second.real_time>>,
               <<RatioOrInf(pairs[i].first.real_time,
                            pairs[i].second.real_time)>>)]

\* analyze_h6; a key the analysis dict does not hold is <<>>
analyze_h6(results) ==
    LET no_compact_seq == group_by_prefix(results, "BM_H6_FieldAccess_NoCompact")
        with_compact_seq ==
            group_by_prefix(results, "BM_H6_FieldAccess_WithCompact")
        no_compact_rand ==
            group_by_prefix(results, "BM_H6_RandomAccess_NoCompact")
        with_compact_rand ==
            group_by_prefix(results, "BM_H6_RandomAccess_WithCompact")
        seq == Pairs(no_compact_seq, with_compact_seq, "Rows, Threads")
        rand == Pairs(no_compact_rand, with_compact_rand,
                     "Threads, Accesses")
        sequential_ratios == H6Ratios(seq)
        random_ratios == H6Ratios(rand)
        evaluated == sequential_ratios # <<>> /\ random_ratios # <<>>
    IN  [hypothesis |-> "H6",
         sequential_ratios |-> sequential_ratios,
         random_ratios |-> random_ratios,
         details |-> H6Details("Sequential", "Rows", seq)
                     \o H6Details("Random", "Accesses", rand),
         avg_sequential_ratio |->
             IF evaluated THEN <<Mean(sequential_ratios)>> ELSE <<>>,
         avg_random_ratio |->
             IF evaluated THEN <<Mean(random_ratios)>> ELSE <<>>,
         max_sequential_ratio |->
             IF evaluated THEN <<Max(sequential_ratios)>> ELSE <<>>,
         confirmed |->
             IF evaluated
             THEN <<H6Confirmed(Mean(sequential_ratios), Mean(random_ratios),
                                Max(sequential_ratios))>>
             ELSE <<>>]

\* avg_ratio > 1.5
H7Confirmed(avg_ratio) == RGt(avg_ratio, <<3, 2>>)

\* one pass of the loop over via_row: at most one pair with direct, then at
\* most one with via_extractor
H7One(row_bench, direct, via_extractor, analysis) ==
    LET rows == get_or_0(row_bench.counters, "Rows")[1]
        direct_bench == FirstMatch(row_bench, direct, "Rows")
        ext_bench == FirstMatch(row_bench, via_extractor, "Rows")
        withDirect ==
            IF direct_bench = <<>> THEN analysis
            ELSE LET ratio == RatioOrInf(row_bench.real_time,
                                         direct_bench[1].real_time)
                 IN  [analysis EXCEPT
                        !.row_vs_direct_ratios = Append(@, ratio),
                        !.details = Append(@,
                            Detail("Row vs Direct", <<rows>>,
                                   <<row_bench.real_time,
                                     direct_bench[1].real_time>>, <<ratio>>))]
    IN  IF ext_bench = <<>> THEN withDirect
        ELSE LET ratio == RatioOrInf(row_bench.real_time,
                                     ext_bench[1].real_time)
             IN  [withDirect EXCEPT
                    !.row_vs_extractor_ratios = Append(@, ratio),
                    !.details = Append(@,
                        Detail("Row vs Extractor", <<rows>>,
                               <<row_bench.real_time, ext_bench[1].real_time>>,
                               <<ratio>>))]

RECURSIVE H7Loop(_, _, _, _)
H7Loop(via_row, direct, via_extractor, analysis) ==
    IF via_row = <<>> THEN analysis
    ELSE H7Loop(Tail(via_row), direct, via_extractor,
                H7One(Head(via_row), direct, via_extractor, analysis))

analyze_h7(results) ==
    LET via_row == group_by_prefix(results, "BM_H7_ViaRowObject")
        direct == group_by_prefix(results, "BM_H7_DirectSpanAccess")
        via_extractor == group_by_prefix(results, "BM_H7_ViaExtractor")
        analysis ==
            H7Loop(via_row, direct, via_extractor,
                   [hypothesis |-> "H7",
                    row_vs_direct_ratios |-> <<>>,
                    row_vs_extractor_ratios |-> <<>>,
                    confirmed |-> <<>>,
                    details |-> <<>>,
                    avg_row_vs_direct_ratio |-> <<>>])
    IN  IF analysis.row_vs_direct_ratios = <<>> THEN analysis
        ELSE [analysis EXCEPT
                !.avg_row_vs_direct_ratio =
                    <<Mean(analysis.row_vs_direct_ratios)>>,
                !.confirmed =
                    <<H7Confirmed(Mean(analysis.row_vs_direct_ratios))>>]

\* rows and cols of a record as the loops of analyze_h1 read them
RowsCols(r) ==
    <<get_or_0(r.counters, "Rows")[1], get_or_0(r.counters, "Cols")[1]>>

\* fc.real_time / fr.real_time if fr.real_time > 0 else 0
RatioOrZero(a, b) == IF b > 0 THEN Frac(a, b) ELSE <<0, 1>>

\* if fc.real_time > fr.real_time: row_major_wins += 1
RowMajorWins(pair) == pair.second.real_time > pair.first.real_time

\* confirmed = col_major_wins == 0
H1Confirmed(col_major_wins) == col_major_wins = 0

analyze_h1(results) ==
    LET row_major == group_by_prefix(results, "BM_H1_RowMajor_ColumnIteration")
        col_major == group_by_prefix(results, "BM_H1_ColMajor_ColumnIteration")
        transpose == group_by_prefix(results, "BM_H1_TransposeOnly")
        full_row == group_by_prefix(results, "BM_FullPipeline_RowMajor")
        full_col == group_by_prefix(results, "BM_FullPipeline_ColMajor")
        iteration == Pairs(row_major, col_major, "Rows, Cols")
        full == Pairs(full_row, full_col, "Rows, Cols")
        row_major_wins == Len(SelectSeq(full, RowMajorWins))
        col_major_wins == Len(full) - row_major_wins
    IN  [hypothesis |-> "H1",
         comparisons |-> <<>>,
         transpose_times |->
             [i \in DOMAIN transpose |->
                 [rows |-> RowsCols(transpose[i])[1],
                  cols |-> RowsCols(transpose[i])[2],
                  time_ms |-> transpose[i].real_time]],
         full_pipeline_comparisons |->
             [i \in DOMAIN full |->
                 [rows |-> RowsCols(full[i].first)[1],
                  cols |-> RowsCols(full[i].first)[2],
                  row_major_ms |-> full[i].first.real_time,
                  col_major_ms |-> full[i].second.real_time,
                  ratio |-> RatioOrZero(full[i].second.real_time,
                                        full[i].first.real_time)]],
         confirmed |-> IF full = <<>> THEN <<>>
                       ELSE <<H1Confirmed(col_major_wins)>>,
         details |->
             [i \in DOMAIN iteration |->
                 Detail("Iteration only", RowsCols(iteration[i].first),
                        <<iteration[i].first.real_time,
                          iteration[i].second.real_time>>, <<>>)]
             \o [i \in DOMAIN transpose |->
                   Detail("Transpose only", RowsCols(transpose[i]),
                          <<transpose[i].real_time>>, <<>>)]
             \o [i \in DOMAIN full |->
                   Detail("Full pipeline", RowsCols(full[i].first),
                          <<full[i].first.real_time,
                            full[i].second.real_time>>,
                          <<RatioOrZero(full[i].second.real_time,
                                        full[i].first.real_time)>>)],
         row_major_wins |-> row_major_wins,
         col_major_wins |-> col_major_wins]

----------------------------------------------------------------------------
(* analyze_h3, analyze_h4, analyze_h5 and analyze_h2 *)

\* sorted(...) of a set of numbers
Ascending(S) ==
    [p \in 1..Cardinality(S) |->
        CHOOSE s \in S : Cardinality({t \in S : t < s}) = p - 1]

\* r.counters.get('Size_MB', 0)
SizeMB(r) == get_or_0(r.counters, "Size_MB")[1]

\* int(r.counters.get('Threads', 1))
Threads(r) ==
    IF "Threads" \in DOMAIN r.counters THEN r.counters["Threads"] ELSE 1

\* results_for_size.sort(key=lambda x: x.counters.get('Threads', 0)): the
\* sort is stable
sort_by_threads(results_for_size) ==
    LET key(i) == get_or_0(results_for_size[i].counters, "Threads")[1]
        before(i) == {j \in DOMAIN results_for_size :
                         \/ key(j) < key(i)
                         \/ key(j) = key(i) /\ j < i}
    IN  [p \in DOMAIN results_for_size |->
            results_for_size[CHOOSE i \in DOMAIN results_for_size :
                                 Cardinality(before(i)) = p - 1]]

\* speedup / threads if threads > 0 else 0
Efficiency(speedup, threads) ==
    IF threads > 0 THEN Frac(speedup[1], speedup[2] * threads) ELSE <<0, 1>>

\* the entry of scaling_data for the record r, base_time being set
H3Datum(size, r, base_time) ==
    [size_mb |-> size,
     threads |-> Threads(r),
     time_ms |-> r.real_time,
     speedup |-> RatioOrZero(base_time, r.real_time),
     efficiency |-> Efficiency(RatioOrZero(base_time, r.real_time),
                               Threads(r))]

\* the loop over the sorted records of one size: base_time is None (<<>>) or
\* the time of the last 1-thread record met, and "if base_time:" is false for
\* None and for 0
RECURSIVE H3Loop(_, _, _)
H3Loop(size, results_for_size, base_time) ==
    IF results_for_size = <<>> THEN <<>>
    ELSE LET r == Head(results_for_size)
             base == IF Threads(r) = 1 THEN <<r.real_time>> ELSE base_time
         IN  (IF base # <<>> /\ base[1] # 0
              THEN <<H3Datum(size, r, base[1])>> ELSE <<>>)
             \o H3Loop(size, Tail(results_for_size), base)

\* for size, results_for_size in sorted(by_size.items()): base_time starts
\* as None for every size
RECURSIVE H3Sizes(_, _)
H3Sizes(thread_scaling, sizes) ==
    IF sizes = <<>> THEN <<>>
    ELSE H3Loop(Head(sizes),
                sort_by_threads(SelectSeq(thread_scaling,
                                          LAMBDA r : SizeMB(r) = Head(sizes))),
                <<>>)
         \o H3Sizes(thread_scaling, Tail(sizes))

\* mutant: high-thread efficiency merely below the low-thread efficiency
H3Confirmed_noHalf(avg_high, avg_low) == RLt(avg_high, avg_low)

\* avg_high < 0.5 * avg_low
H3Confirmed(avg_high, avg_low) ==
    RLt(avg_high, Frac(avg_low[1], 2 * avg_low[2]))

analyze_h3(results) ==
    LET thread_scaling == group_by_prefix(results, "BM_H3_ThreadScaling")
        scaling_data ==
            H3Sizes(thread_scaling,
                    Ascending({SizeMB(thread_scaling[i]) :
                                  i \in DOMAIN thread_scaling}))
        high == SelectSeq(scaling_data, LAMBDA d : d.threads >= 8)
        low == SelectSeq(scaling_data,
                         LAMBDA d : d.threads <= 4 /\ d.threads > 1)
        high_thread_efficiency == [i \in DOMAIN high |-> high[i].efficiency]
        low_thread_efficiency == [i \in DOMAIN low |-> low[i].efficiency]
        evaluated == high # <<>> /\ low # <<>>
    IN  [hypothesis |-> "H3",
         scaling_data |-> scaling_data,
         confirmed |->
             IF evaluated
             THEN <<H3Confirmed(Mean(high_thread_efficiency),
                                Mean(low_thread_efficiency))>>
             ELSE <<>>,
         details |->
             [i \in DOMAIN scaling_data |->
                 Detail("Thread scaling",
                        <<scaling_data[i].size_mb, scaling_data[i].threads>>,
                        <<scaling_data[i].time_ms>>,
                        <<scaling_data[i].speedup,
                          scaling_data[i].efficiency>>)],
         avg_low_thread_efficiency |->
             IF evaluated THEN <<Mean(low_thread_efficiency)>> ELSE <<>>,
         avg_high_thread_efficiency |->
             IF evaluated THEN <<Mean(high_thread_efficiency)>> ELSE <<>>]

\* mutant: H4 is refuted when a run found escapes in every field
H4Confirmed_fromData(escape_data) ==
    IF escape_data = <<>> THEN <<>>
    ELSE <<\A i \in DOMAIN escape_data :
              escape_data[i].escape_count < escape_data[i].total_fields>>

\* analysis['confirmed'] = None  # Cannot confirm from synthetic data
H4Confirmed(escape_data) == <<>>

analyze_h4(results) ==
    LET escape_analysis == group_by_prefix(results, "BM_H4_EscapeAnalysis")
        escape_data ==
            [i \in DOMAIN escape_analysis |->
                [input_ratio |->
                     get_or_0(escape_analysis[i].counters,
                              "EscapeRatio_Input")[1],
                 actual_ratio |->
                     get_or_0(escape_analysis[i].counters,
                              "ActualEscapeRatio")[1],
                 escape_count |->
                     get_or_0(escape_analysis[i].counters, "EscapeCount")[1],
                 total_fields |->
                     get_or_0(escape_analysis[i].counters, "TotalFields")[1]]]
    IN  [hypothesis |-> "H4",
         escape_data |-> escape_data,
         confirmed |-> H4Confirmed(escape_data),
         details |->
             [i \in DOMAIN escape_data |->
                 Detail("Input escape ratio",
                        <<escape_data[i].input_ratio,
                          escape_data[i].escape_count,
                          escape_data[i].total_fields>>,
                        <<>>, <<<<escape_data[i].actual_ratio, 1>>>>)]
             \o <<Detail("Note", <<>>, <<>>, <<>>)>>]

analyze_h5(results) ==
    LET type_inference == group_by_prefix(results, "BM_H5_TypeInference")
        type_data ==
            [i \in DOMAIN type_inference |->
                [rows |-> get_or_0(type_inference[i].counters, "Rows")[1],
                 sample_rows |->
                     get_or_0(type_inference[i].counters, "SampleRows")[1],
                 type_changes |->
                     get_or_0(type_inference[i].counters, "TypeChanges")[1]]]
    IN  [hypothesis |-> "H5",
         type_data |-> type_data,
         confirmed |-> <<>>,
         details |->
             [i \in DOMAIN type_data |->
                 Detail("Type changes",
                        <<type_data[i].rows, type_data[i].sample_rows,
                          type_data[i].type_changes>>, <<>>, <<>>)]
             \o <<Detail("Note", <<>>, <<>>, <<>>)>>]

\* the keys analyze_h2 stores a group's times under, and the groups' prefixes
H2Prefix ==
    [parse_only |-> "BM_H2_ParseOnly",
     parse_extract |-> "BM_H2_ParseAndExtract",
     direct_buffer |-> "BM_H2_DirectBufferSimulation",
     builder_pattern |-> "BM_H2_BuilderPatternOverhead",
     arrow_full |-> "BM_H2_ArrowBuilders_Full",
     arrow_no_inference |-> "BM_H2_ArrowBuilders_NoInference",
     type_inference |-> "BM_H2_TypeInferenceOnly"]

\* what a loop "configs[key][...] = r.real_time" over group leaves for key:
\* the time of the group's last record of that configuration, if any
LastTime(group, key) ==
    LET at == {i \in DOMAIN group : RowsCols(group[i]) = key}
    IN  IF at = {} THEN <<>>
        ELSE <<group[CHOOSE i \in at : \A j \in at : j <= i].real_time>>

\* configs after the seven loops: the keys are those of the parse-only
\* records, the other groups fill in the keys that exist
H2Configs(results) ==
    LET parse_only == group_by_prefix(results, H2Prefix.parse_only)
        time(field, key) ==
            LastTime(group_by_prefix(results, H2Prefix[field]), key)
    IN  [key \in {RowsCols(parse_only[i]) : i \in DOMAIN parse_only} |->
            [field \in {f \in DOMAIN H2Prefix : time(f, key) # <<>>} |->
                time(field, key)[1]]]

\* sorted(configs.items()): by rows, then by cols
SortedConfigs(keys) ==
    LET less(j, k) == j[1] < k[1] \/ (j[1] = k[1] /\ j[2] < k[2])
    IN  [p \in 1..Cardinality(keys) |->
            CHOOSE k \in keys :
                Cardinality({j \in keys : less(j, k)}) = p - 1]

\* the ratios time / parse_time of the configurations that have the field
H2Ratios(configs, kept, field) ==
    LET having == SelectSeq(kept, LAMBDA k : field \in DOMAIN configs[k])
    IN  [i \in DOMAIN having |->
            RatioOrZero(configs[having[i]][field],
                        configs[having[i]].parse_only)]

\* the lines of details for one configuration
H2Lines(key, times) ==
    LET line(kind, field) ==
            IF field \in DOMAIN times
            THEN <<Detail(kind, key, <<times[field]>>,
                          <<RatioOrZero(times[field], times.parse_only)>>)>>
            ELSE <<>>
        builder ==
            IF "builder_pattern" \notin DOMAIN times THEN <<>>
            ELSE IF "direct_buffer" \in DOMAIN times
            THEN <<Detail("Builder pattern", key, <<times.builder_pattern>>,
                          <<RatioOrZero(times.builder_pattern,
                                        times.parse_only),
                            RatioOrZero(times.builder_pattern,
                                        times.direct_buffer)>>)>>
            ELSE line("Builder pattern", "builder_pattern")
    IN  <<Detail("Configuration", key, <<>>, <<>>),
          Detail("Parse only", key, <<times.parse_only>>, <<>>)>>
        \o line("Parse + extract", "parse_extract")
        \o line("Direct buffer", "direct_buffer")
        \o builder
        \o line("Arrow Builders (full)", "arrow_full")
        \o line("Arrow (no inference)", "arrow_no_inference")
        \o line("Type inference only", "type_inference")

RECURSIVE H2Details(_, _)
H2Details(configs, kept) ==
    IF kept = <<>> THEN <<>>
    ELSE H2Lines(Head(kept), configs[Head(kept)])
         \o H2Details(configs, Tail(kept))

\* avg_arrow_overhead > 2.0
H2Confirmed(avg_arrow_overhead) == RGt(avg_arrow_overhead, <<2, 1>>)

analyze_h2(results) ==
    LET configs == H2Configs(results)
        kept == SelectSeq(SortedConfigs(DOMAIN configs),
                          LAMBDA k : configs[k].parse_only # 0)
        arrow_overhead_ratios == H2Ratios(configs, kept, "arrow_full")
        builder_overhead_ratios == H2Ratios(configs, kept, "builder_pattern")
    IN  [hypothesis |-> "H2",
         comparisons |->
             [i \in DOMAIN kept |->
                 [rows |-> kept[i][1], cols |-> kept[i][2]]
                 @@ configs[kept[i]]],
         confirmed |->
             IF arrow_overhead_ratios # <<>>
             THEN <<H2Confirmed(Mean(arrow_overhead_ratios))>> ELSE <<>>,
         details |->
             H2Details(configs, kept)
             \o (IF arrow_overhead_ratios # <<>>
                 THEN <<Detail("Average Arrow/parse ratio", <<>>, <<>>,
                               <<Mean(arrow_overhead_ratios)>>),
                        Detail(IF H2Confirmed(Mean(arrow_overhead_ratios))
                               THEN "Conclusion: IS a significant bottleneck"
                               ELSE "Conclusion: is NOT the primary bottleneck",
                               <<>>, <<>>, <<>>)>>
                 ELSE IF builder_overhead_ratios # <<>>
                 THEN <<Detail("Average Builder pattern/parse ratio", <<>>,
                               <<>>, <<Mean(builder_overhead_ratios)>>),
                        Detail("Note", <<>>, <<>>, <<>>)>>
                 ELSE <<Detail("Insufficient data", <<>>, <<>>, <<>>)>>),
         has_arrow_benchmarks |->
             group_by_prefix(results, H2Prefix.arrow_full) # <<>>,
         avg_arrow_overhead_ratio |->
             IF arrow_overhead_ratios # <<>>
             THEN <<Mean(arrow_overhead_ratios)>> ELSE <<>>,
         avg_builder_overhead_ratio |->
             IF arrow_overhead_ratios = <<>> /\ builder_overhead_ratios # <<>>
             THEN <<Mean(builder_overhead_ratios)>> ELSE <<>>]

----------------------------------------------------------------------------
(* Single calls of the analyses on the results of load_results *)

\* most records of one group in a document
MaxGroup == 2

NoKeys == [k \in {} |-> 0]

\* an entry of the "benchmarks" list: its name, its real_time if it has one,
\* and its other top-level keys
HBench(function, real_time, keys) ==
    [name |-> Name(function, ""), real_time |-> real_time,
     aggregate_name |-> "", keys |-> keys]

\* the lists of at most most records taken from R
Groups(R, most) == UNION {[1..n -> R] : n \in 0..most}

\* for every k of 1..most and every choice of k times from T: k records of
\* function f with these times, the i-th with Rows = 1000 * i and the
\* counters of more
Ladders(f, T, more, most) ==
    UNION {{[i \in 1..k |-> HBench(f, <<t[i]>>, [Rows |-> 1000 * i] @@ more)] :
               t \in [1..k -> T]} : k \in 1..most}

\* documents for analyze_h6 that vary the counters
H6MatchDocs(most) ==
    {ncs \o wcs \o ncr \o wcr :
        ncs \in Groups({HBench("BM_H6_FieldAccess_NoCompact", <<20>>, c) :
                          c \in {[Rows |-> 1000, Threads |-> 4],
                                 [Rows |-> 1000],
                                 [Rows |-> 2000, Threads |-> 4],
                                 NoKeys}}, most),
        wcs \in Groups({HBench("BM_H6_FieldAccess_WithCompact", <<10>>, c) :
                          c \in {[Rows |-> 1000, Threads |-> 4],
                                 [Rows |-> 1000],
                                 [Rows |-> 1000, Threads |-> 0]}}
                       \cup {HBench("BM_H6_FieldAccess_WithCompact", <<0>>,
                                    [Rows |-> 1000, Threads |-> 4])}, most),
        ncr \in {<<>>}
                \cup {<<HBench("BM_H6_RandomAccess_NoCompact", <<30>>, c)>> :
                        c \in {[Threads |-> 4, Accesses |-> 100],
                               [Threads |-> 4]}},
        wcr \in {<<>>}
                \cup {<<HBench("BM_H6_RandomAccess_WithCompact", <<20>>, c)>> :
                        c \in {[Threads |-> 4, Accesses |-> 100],
                               [Threads |-> 4]}}
                \cup {<<HBench("BM_H6_RandomAccess_WithCompact", <<0>>,
                               [Threads |-> 4, Accesses |-> 100])>>}}

\* documents for analyze_h6 that vary the times: sequential ratios of 0.25,
\* 1, 1.15, 1.2, 1.4, 1.45 and 2, a random ratio of 1, 1.5 or 1.55 or none
H6TimeDocs(most) ==
    {ncs \o wcs \o rand :
        ncs \in Ladders("BM_H6_FieldAccess_NoCompact",
                        {5, 20, 23, 24, 28, 29, 40},
                        [Threads |-> 4], most),
        wcs \in Ladders("BM_H6_FieldAccess_WithCompact", {20}, [Threads |-> 4],
                        most),
        rand \in {<<>>}
                 \cup {<<HBench("BM_H6_RandomAccess_NoCompact", <<t>>,
                                [Threads |-> 4, Accesses |-> 100]),
                         HBench("BM_H6_RandomAccess_WithCompact", <<20>>,
                                [Threads |-> 4, Accesses |-> 100])>> :
                         t \in {20, 30, 31}}}

\* documents with an aggregate entry and a key that is no counter, and with
\* an entry that has no real_time
H6OtherDocs ==
    {<<HBench("BM_H6_FieldAccess_NoCompact", <<20>>,
              [Rows |-> 1000, Threads |-> 4, bytes_per_second |-> 7]),
       [HBench("BM_H6_FieldAccess_WithCompact", <<5>>,
               [Rows |-> 1000, Threads |-> 4])
          EXCEPT !.aggregate_name = "mean"],
       HBench("BM_H6_FieldAccess_WithCompact", t,
              [Rows |-> 1000, Threads |-> 4, bytes_per_second |-> 9])>> \o rand :
        t \in {<<10>>, <<>>},
        rand \in {<<>>,
                  <<HBench("BM_H6_RandomAccess_NoCompact", <<30>>,
                           [Threads |-> 4]),
                    HBench("BM_H6_RandomAccess_WithCompact", <<20>>,
                           [Threads |-> 4])>>}}

\* documents for analyze_h7 that vary the counters
H7MatchDocs(most) ==
    {rows \o directs \o exts :
        rows \in Groups({HBench("BM_H7_ViaRowObject", <<30>>, c) :
                           c \in {[Rows |-> 1000], [Rows |-> 2000], NoKeys}},
                        most),
        directs \in Groups({HBench("BM_H7_DirectSpanAccess", <<20>>, c) :
                              c \in {[Rows |-> 1000], [Rows |-> 0], NoKeys}}
                           \cup {HBench("BM_H7_DirectSpanAccess", t,
                                        [Rows |-> 1000]) : t \in {<<0>>, <<>>}},
                           most),
        exts \in {<<>>,
                  <<HBench("BM_H7_ViaExtractor", <<10>>, [Rows |-> 1000])>>,
                  <<HBench("BM_H7_ViaExtractor", <<0>>, [Rows |-> 2000])>>}}

\* documents for analyze_h7 that vary the times: ratios of 1, 1.5, 1.55, 2
H7TimeDocs(most) ==
    {rows \o directs :
        rows \in Ladders("BM_H7_ViaRowObject", {20, 30, 31, 40}, NoKeys, most),
        directs \in Ladders("BM_H7_DirectSpanAccess", {20}, NoKeys, most)}

\* documents for analyze_h1
H1Docs(most) ==
    {iter \o frs \o fcs :
        iter \in {<<>>,
                  <<HBench("BM_H1_RowMajor_ColumnIteration", <<5>>,
                           [Rows |-> 1000, Cols |-> 10]),
                    HBench("BM_H1_ColMajor_ColumnIteration", <<4>>,
                           [Rows |-> 1000, Cols |-> 10]),
                    HBench("BM_H1_TransposeOnly", <<3>>,
                           [Rows |-> 1000, Cols |-> 10])>>,
                  <<HBench("BM_H1_RowMajor_ColumnIteration", <<5>>,
                           [Rows |-> 1000]),
                    HBench("BM_H1_ColMajor_ColumnIteration", <<4>>,
                           [Rows |-> 1000]),
                    HBench("BM_H1_TransposeOnly", <<3>>, NoKeys)>>},
        frs \in Groups({HBench("BM_FullPipeline_RowMajor", <<20>>, c) :
                          c \in {[Rows |-> 1000, Cols |-> 10], [Rows |-> 1000],
                                 NoKeys}}
                       \cup {HBench("BM_FullPipeline_RowMajor", <<0>>,
                                    [Rows |-> 1000, Cols |-> 10])}, most),
        fcs \in Groups({HBench("BM_FullPipeline_ColMajor", <<t>>,
                               [Rows |-> 1000, Cols |-> 10]) :
                          t \in {10, 20, 30}}
                       \cup {HBench("BM_FullPipeline_ColMajor", <<20>>, c) :
                               c \in {[Rows |-> 1000], [Rows |-> 0, Cols |-> 0]}},
                       most)}

\* a record of BM_H3_ThreadScaling, the file being of 10 MB
H3Bench(real_time, threads) ==
    HBench("BM_H3_ThreadScaling", <<real_time>>,
           [Size_MB |-> 10, Threads |-> threads])

\* documents for analyze_h3: for the 10 MB file a run on 1 thread (80 ms or
\* 0 ms) or none, a run on 4 threads (efficiency 0.5 or 1) or none and a run
\* on 8 threads (efficiency 0.125, 0.25 or 0.5, or a time of 0) or none, in
\* this order or listed backwards; then records of a 100 MB file and a record
\* that has neither Size_MB nor Threads
H3Docs(most) ==
    {(IF backwards THEN eight \o four \o one ELSE one \o four \o eight)
     \o others :
        one \in {<<>>, <<H3Bench(80, 1)>>, <<H3Bench(0, 1)>>},
        four \in {<<>>, <<H3Bench(40, 4)>>, <<H3Bench(20, 4)>>},
        eight \in {<<>>} \cup {<<H3Bench(t, 8)>> : t \in {0, 20, 40, 80}},
        backwards \in BOOLEAN,
        others \in Groups({HBench("BM_H3_ThreadScaling", <<40>>,
                                  [Size_MB |-> 100, Threads |-> 4]),
                           HBench("BM_H3_ThreadScaling", <<160>>,
                                  [Size_MB |-> 100, Threads |-> 1]),
                           HBench("BM_H3_ThreadScaling", <<40>>,
                                  [Size_MB |-> 100, Threads |-> 8]),
                           HBench("BM_H3_ThreadScaling", <<50>>, NoKeys)},
                          most)}

\* documents for analyze_h4
H4Docs(most) ==
    Groups({HBench("BM_H4_EscapeAnalysis", <<5>>, c) :
              c \in {[EscapeRatio_Input |-> 0, ActualEscapeRatio |-> 0,
                      EscapeCount |-> 0, TotalFields |-> 100],
                     [EscapeRatio_Input |-> 1, ActualEscapeRatio |-> 1,
                      EscapeCount |-> 100, TotalFields |-> 100],
                     NoKeys}}, most)

\* documents for analyze_h5
H5Docs(most) ==
    Groups({HBench("BM_H5_TypeInference", <<5>>, c) :
              c \in {[Rows |-> 1000, SampleRows |-> 100, TypeChanges |-> 0],
                     [Rows |-> 1000, SampleRows |-> 100, TypeChanges |-> 2],
                     NoKeys}}, most)

\* documents for analyze_h2: parse-only times of 10 ms and 0 ms, Arrow
\* ratios of 2, 2.1, 3 and 4
H2Docs(most) ==
    {parse \o arrow \o rest :
        parse \in Groups({HBench(H2Prefix.parse_only, <<10>>,
                                 [Rows |-> 1000, Cols |-> 10]),
                          HBench(H2Prefix.parse_only, <<0>>,
                                 [Rows |-> 1000, Cols |-> 10]),
                          HBench(H2Prefix.parse_only, <<10>>,
                                 [Rows |-> 500])}, most),
        arrow \in Groups({HBench(H2Prefix.arrow_full, <<t>>,
                                 [Rows |-> 1000, Cols |-> 10]) :
                             t \in {20, 21, 30}}
                         \cup {HBench(H2Prefix.arrow_full, <<40>>,
                                      [Rows |-> 500])}, most),
        rest \in {<<>>,
                  <<HBench(H2Prefix.builder_pattern, <<15>>,
                           [Rows |-> 1000, Cols |-> 10])>>,
                  <<HBench(H2Prefix.direct_buffer, <<5>>,
                           [Rows |-> 1000, Cols |-> 10]),
                    HBench(H2Prefix.builder_pattern, <<15>>,
                           [Rows |-> 1000, Cols |-> 10])>>,
                  <<HBench(H2Prefix.direct_buffer, <<0>>,
                           [Rows |-> 500]),
                    HBench(H2Prefix.builder_pattern, <<15>>,
                           [Rows |-> 500])>>,
                  <<HBench(H2Prefix.parse_extract, <<12>>,
                           [Rows |-> 1000, Cols |-> 10]),
                    HBench(H2Prefix.arrow_no_inference, <<18>>,
                           [Rows |-> 1000, Cols |-> 10]),
                    HBench(H2Prefix.type_inference, <<3>>,
                           [Rows |-> 1000, Cols |-> 10])>>}}

\* the calls that are explored, on documents of at most most records a group
HypCalls(most) ==
    [fn : {"analyze_h6"},
     results : {load_results(d) :
                  d \in H6MatchDocs(most) \cup H6TimeDocs(most)
                        \cup H6OtherDocs}]
    \cup [fn : {"analyze_h7"},
          results : {load_results(d) :
                       d \in H7MatchDocs(most) \cup H7TimeDocs(most)}]
    \cup [fn : {"analyze_h1"},
          results : {load_results(d) : d \in H1Docs(most)}]
    \cup [fn : {"analyze_h2"},
          results : {load_results(d) : d \in H2Docs(most)}]
    \cup [fn : {"analyze_h3"},
          results : {load_results(d) : d \in H3Docs(most)}]
    \cup [fn : {"analyze_h4"},
          results : {load_results(d) : d \in H4Docs(most)}]
    \cup [fn : {"analyze_h5"},
          results : {load_results(d) : d \in H5Docs(most)}]

HypInit ==
    /\ pc = "call"
    /\ MainIdle
    /\ call \in HypCalls(MaxGroup)
    /\ ret = NoCall

CallH6 ==
    /\ pc = "call"
    /\ call.fn = "analyze_h6"
    /\ ret' = analyze_h6(call.results)
    /\ pc' = "returned"
    /\ UNCHANGED call
    /\ UNCHANGED_main

CallH7 ==
    /\ pc = "call"
    /\ call.fn = "analyze_h7"
    /\ ret' = analyze_h7(call.results)
    /\ pc' = "returned"
    /\ UNCHANGED call
    /\ UNCHANGED_main

CallH1 ==
    /\ pc = "call"
    /\ call.fn = "analyze_h1"
    /\ ret' = analyze_h1(call.results)
    /\ pc' = "returned"
    /\ UNCHANGED call
    /\ UNCHANGED_main

CallH2 ==
    /\ pc = "call"
    /\ call.fn = "analyze_h2"
    /\ ret' = analyze_h2(call.results)
    /\ pc' = "returned"
    /\ UNCHANGED call
    /\ UNCHANGED_main

CallH3 ==
    /\ pc = "call"
    /\ call.fn = "analyze_h3"
    /\ ret' = analyze_h3(call.results)
    /\ pc' = "returned"
    /\ UNCHANGED call
    /\ UNCHANGED_main

CallH4 ==
    /\ pc = "call"
    /\ call.fn = "analyze_h4"
    /\ ret' = analyze_h4(call.results)
    /\ pc' = "returned"
    /\ UNCHANGED call
    /\ UNCHANGED_main

CallH5 ==
    /\ pc = "call"
    /\ call.fn = "analyze_h5"
    /\ ret' = analyze_h5(call.results)
    /\ pc' = "returned"
    /\ UNCHANGED call
    /\ UNCHANGED_main

HypNext ==
    \/ CallH6
    \/ CallH7
    \/ CallH1
    \/ CallH2
    \/ CallH3
    \/ CallH4
    \/ CallH5

SpecHyp == HypInit /\ [][HypNext]_vars

\* the call's results by the function their name begins with
Group(prefix) == group_by_prefix(call.results, prefix)

HypReturned ==
    pc = "returned" /\ call.fn \in {"analyze_h6", "analyze_h7", "analyze_h1"}

----------------------------------------------------------------------------
(* Properties of the hypothesis analyses (specification SpecHyp) *)

DetailsOf(kind) == SelectSeq(ret.details, LAMBDA d : d.kind = kind)

\* the value of counter k as the loops read it from a record of the first
\* group: 0 when the record has no such counter
ReadFirst(a, k) == IF k \in DOMAIN a.counters THEN a.counters[k] ELSE 0

\* record b has counter k with the value read from a
SameOn(a, b, k) == k \in DOMAIN b.counters /\ b.counters[k] = ReadFirst(a, k)

SameRowsThreads(a, b) == SameOn(a, b, "Rows") /\ SameOn(a, b, "Threads")
SameThreadsAccesses(a, b) ==
    SameOn(a, b, "Threads") /\ ReadFirst(a, "Accesses") = ReadFirst(b, "Accesses")
SameRows(a, b) == SameOn(a, b, "Rows")
SameRowsCols(a, b) == SameOn(a, b, "Rows") /\ SameOn(a, b, "Cols")

\* outs holds one line for every record of firsts that has a counterpart in
\* seconds, in the order of firsts, each showing the time of that record and
\* the time of one of its counterparts; other records of firsts have no line
PairedOnce(firsts, seconds, same(_, _), outs) ==
    LET matched == SelectSeq(firsts,
                     LAMBDA a : \E j \in DOMAIN seconds : same(a, seconds[j]))
    IN  /\ Len(outs) = Len(matched)
        /\ \A i \in DOMAIN outs :
              /\ outs[i].times[1] = matched[i].real_time
              /\ \E j \in DOMAIN seconds :
                    /\ same(matched[i], seconds[j])
                    /\ outs[i].times[2] = seconds[j].real_time

C18_ScenarioD ==
    (/\ pc = "returned"
     /\ call.fn = "analyze_h6"
     /\ call.results =
           <<[name |-> Name("BM_H6_FieldAccess_NoCompact", ""),
              real_time |-> 20, counters |-> [Rows |-> 1000]],
             [name |-> Name("BM_H6_FieldAccess_WithCompact", ""),
              real_time |-> 10, counters |-> [Rows |-> 1000]]>>) =>
        /\ ret.sequential_ratios = <<<<2, 1>>>>
        /\ Len(DetailsOf("Sequential")) = 1

\* the ratios that are not infinite
Finite(ratios) == SelectSeq(ratios, LAMBDA r : r[2] # 0)

\* the pairs of an analysis whose second time is not above zero, by the
\* detail lines that show them
ZeroDenominator == SelectSeq(ret.details, LAMBDA d : d.times[2] <= 0)

\* C19: a pair whose denominator time is zero or missing has a detail line
\* with an infinite ratio, no recorded mean or max is infinite, and an
\* analysis whose deciding ratios are all infinite is not confirmed.
C19_InfiniteNeverConfirms ==
    (pc = "returned" /\ call.fn \in {"analyze_h6", "analyze_h7"}) =>
        LET deciding == IF call.fn = "analyze_h6" THEN ret.sequential_ratios
                        ELSE ret.row_vs_direct_ratios
            recorded == IF call.fn = "analyze_h6"
                        THEN {ret.avg_sequential_ratio, ret.avg_random_ratio,
                              ret.max_sequential_ratio}
                        ELSE {ret.avg_row_vs_direct_ratio}
        IN  /\ \A i \in DOMAIN ZeroDenominator :
                  ZeroDenominator[i].ratio = <<Inf>>
            /\ <<Inf>> \notin recorded
            /\ Finite(deciding) = <<>> => ret.confirmed # <<TRUE>>

\* the product of the denominators of finite ratios
RECURSIVE DenProd(_)
DenProd(ratios) ==
    IF ratios = <<>> THEN 1 ELSE Head(ratios)[2] * DenProd(Tail(ratios))

\* the sum of finite ratios as a multiple of 1/D
RECURSIVE NumSum(_, _)
NumSum(ratios, D) ==
    IF ratios = <<>> THEN 0
    ELSE Head(ratios)[1] * (D \div Head(ratios)[2]) + NumSum(Tail(ratios), D)

\* the mean of the ratios is above n/d; an infinite ratio makes it infinite
MeanAbove(ratios, n, d) ==
    \/ Finite(ratios) # ratios
    \/ NumSum(ratios, DenProd(ratios)) * d > n * Len(ratios) * DenProd(ratios)

\* the largest of the ratios is above n/d
MaxAbove(ratios, n, d) ==
    \E i \in DOMAIN ratios : ratios[i][1] * d > n * ratios[i][2]

\* C20: with at least one sequential and one random ratio the three
\* aggregates are recorded and confirmed is (mean sequential > 1.15 and mean
\* random > 1.5) or max sequential > 1.4, all strict; with either list empty
\* confirmed is None and no aggregate is recorded.
C20_H6Predicate ==
    (pc = "returned" /\ call.fn = "analyze_h6") =>
        IF ret.sequential_ratios # <<>> /\ ret.random_ratios # <<>>
        THEN /\ ret.confirmed =
                  <<(\/ (/\ MeanAbove(ret.sequential_ratios, 23, 20)
                         /\ MeanAbove(ret.random_ratios, 3, 2))
                     \/ MaxAbove(ret.sequential_ratios, 7, 5))>>
             /\ ret.avg_sequential_ratio # <<>>
             /\ ret.avg_random_ratio # <<>>
             /\ ret.max_sequential_ratio # <<>>
        ELSE /\ ret.confirmed = <<>>
             /\ ret.avg_sequential_ratio = <<>>
             /\ ret.avg_random_ratio = <<>>
             /\ ret.max_sequential_ratio = <<>>

\* sequential ratios of 0.25 and 1.45 (mean 0.85, max 1.45) and a random
\* ratio of 1: confirmed by the max alone
C20_Witness ==
    /\ pc = "returned"
    /\ call.fn = "analyze_h6"
    /\ ret.sequential_ratios = <<<<1, 4>>, <<29, 20>>>>
    /\ ret.random_ratios = <<<<1, 1>>>>
    /\ ret.avg_sequential_ratio = <<<<17, 20>>>>
    /\ ret.max_sequential_ratio = <<<<29, 20>>>>
    /\ ret.confirmed = <<TRUE>>

----------------------------------------------------------------------------
(* Further properties of check_regression.py *)

\* how often name n occurs in a list
Occurrences(list, n) ==
    Cardinality({i \in DOMAIN list : list[i].name = n})

\* C30: after a call of compare_benchmarks that returned, every name of
\* current occurs exactly once in the four lists taken together, no other
\* name occurs in them, and the four lengths add up to the number of names
\* of current.
C30_Partition ==
    (pc = "returned" /\ IsCompareCall /\ ~ret.raised) =>
        /\ \A i \in DOMAIN call.current :
              Occurrences(ret.regressions, call.current[i].name)
              + Occurrences(ret.improvements, call.current[i].name)
              + Occurrences(ret.unchanged, call.current[i].name)
              + Occurrences(ret.skipped, call.current[i].name) = 1
        /\ NamesOf(ret.regressions) \cup NamesOf(ret.improvements)
              \cup NamesOf(ret.unchanged) \cup NamesOf(ret.skipped)
              \subseteq Keys(call.current)
        /\ Len(ret.regressions) + Len(ret.improvements)
              + Len(ret.unchanged) + Len(ret.skipped) = Len(call.current)

\* two names, one skipped for its baseline below the floor and one a
\* regression
C30_Witness ==
    /\ pc = "returned"
    /\ IsCompareCall
    /\ Len(call.current) = 2
    /\ Len(ret.skipped) = 1
    /\ Len(ret.regressions) = 1
    /\ ret.skipped[1].name # ret.regressions[1].name
    /\ RGt(ret.skipped[1].base, <<0, 1>>)

\* the first entry of the document that is primitive, not failing, carries a
\* real_time and a time_unit
FirstWithUnit(benchmarks) ==
    LET at == {i \in DOMAIN benchmarks :
                  /\ Primitive(benchmarks[i])
                  /\ benchmarks[i].real_time # <<>>
                  /\ benchmarks[i].time_unit # <<>>}
    IN  IF at = {} THEN <<>>
        ELSE <<benchmarks[CHOOSE i \in at : \A j \in at : i <= j]>>

\* C28: the time_unit load_benchmark returns is the time_unit of the first
\* valid entry that carries one, 'ns' when there is none; later entries do
\* not change it.
C28_FirstUnitWins ==
    (pc = "returned" /\ call.fn = "load_benchmark" /\ ~ret.results.none) =>
        ret.time_unit =
            (IF FirstWithUnit(call.file.benchmarks) = <<>> THEN <<"ns">>
             ELSE FirstWithUnit(call.file.benchmarks)[1].time_unit)

\* the time unit of the baseline document, read as load_benchmark reads it
BaselineUnit == load_benchmark(fs[base_path], FALSE).time_unit[1]

\* C27: the floor compare_benchmarks applies is 1 ms of real time whatever
\* the unit of the values: in a run of the libvroom script a name is skipped
\* only if its baseline time, in the unit of the baseline document, is not
\* above zero or is below 1 ms.
C27_FloorIsOneMillisecond ==
    (/\ pc = "exited"
     /\ script = "libvroom"
     /\ cmp.called
     /\ copies = 0) =>
        \A i \in DOMAIN cmp.lists.skipped :
            \/ RLe(cmp.lists.skipped[i].base, <<0, 1>>)
            \/ RLt(cmp.lists.skipped[i].base, MIN_TIME_THRESHOLD(BaselineUnit))

----------------------------------------------------------------------------
(* Further properties of the hypothesis analyses (specification SpecHyp) *)

\* C21 as stated: with a single sequential pair of ratio 2, analyze_h6 is
\* confirmed if the mean random ratio is above 1.5 and inconclusive otherwise.
C21_ScenarioDVerdict ==
    (/\ pc = "returned"
     /\ call.fn = "analyze_h6"
     /\ ret.sequential_ratios = <<<<2, 1>>>>) =>
        ret.confirmed =
            (IF ret.random_ratios # <<>> /\ MeanAbove(ret.random_ratios, 3, 2)
             THEN <<TRUE>> ELSE <<>>)

\* C21: with a single sequential pair of ratio 2, analyze_h6 is confirmed as
\* soon as a random pair is matched, whatever its ratio (the max sequential
\* ratio 2 is above 1.4), and inconclusive when no random pair is matched; it
\* is never refuted.
C21_ScenarioDVerdictByMax ==
    (/\ pc = "returned"
     /\ call.fn = "analyze_h6"
     /\ ret.sequential_ratios = <<<<2, 1>>>>) =>
        ret.confirmed = (IF ret.random_ratios # <<>> THEN <<TRUE>> ELSE <<>>)

\* a sequential pair of ratio 2 and a random pair of ratio 1: confirmed
C21_Witness ==
    /\ pc = "returned"
    /\ call.fn = "analyze_h6"
    /\ ret.sequential_ratios = <<<<2, 1>>>>
    /\ ret.random_ratios = <<<<1, 1>>>>
    /\ ret.confirmed = <<TRUE>>

\* C25: analyze_h1 is confirmed iff a full-pipeline pair is matched and in
\* every matched pair the column-major time is at least the row-major time,
\* ties included; it is refuted iff in some matched pair the column-major
\* time is below the row-major time.
C25_TiesConfirm ==
    (pc = "returned" /\ call.fn = "analyze_h1") =>
        LET pairs == ret.full_pipeline_comparisons
        IN  /\ ret.confirmed = <<TRUE>> <=>
                  /\ pairs # <<>>
                  /\ \A i \in DOMAIN pairs :
                        pairs[i].col_major_ms >= pairs[i].row_major_ms
            /\ ret.confirmed = <<FALSE>> <=>
                  \E i \in DOMAIN pairs :
                      pairs[i].col_major_ms < pairs[i].row_major_ms

\* the functions whose records an analysis groups
Prefixes(fn) ==
    CASE fn = "analyze_h1" ->
             {"BM_H1_RowMajor_ColumnIteration", "BM_H1_ColMajor_ColumnIteration",
              "BM_H1_TransposeOnly", "BM_FullPipeline_RowMajor",
              "BM_FullPipeline_ColMajor"}
      [] fn = "analyze_h2" -> {H2Prefix[f] : f \in DOMAIN H2Prefix}
      [] fn = "analyze_h3" -> {"BM_H3_ThreadScaling"}
      [] fn = "analyze_h4" -> {"BM_H4_EscapeAnalysis"}
      [] fn = "analyze_h5" -> {"BM_H5_TypeInference"}
      [] fn = "analyze_h6" ->
             {"BM_H6_FieldAccess_NoCompact", "BM_H6_FieldAccess_WithCompact",
              "BM_H6_RandomAccess_NoCompact", "BM_H6_RandomAccess_WithCompact"}
      [] fn = "analyze_h7" ->
             {"BM_H7_ViaRowObject", "BM_H7_DirectSpanAccess",
              "BM_H7_ViaExtractor"}

\* the matched pairs, configurations or scaling data an analysis decided on
MatchedData(fn, analysis) ==
    CASE fn = "analyze_h1" -> analysis.full_pipeline_comparisons
      [] fn = "analyze_h2" -> analysis.comparisons
      [] fn = "analyze_h3" -> analysis.scaling_data
      [] fn = "analyze_h4" -> analysis.escape_data
      [] fn = "analyze_h5" -> analysis.type_data
      [] fn = "analyze_h6" ->
             IF analysis.random_ratios = <<>> THEN <<>>
             ELSE analysis.sequential_ratios
      [] fn = "analyze_h7" -> analysis.row_vs_direct_ratios

\* what C22 says of the analysis that fn returned for the records given
NoneWithoutData(fn, given, analysis) ==
    /\ analysis.confirmed # <<>> => MatchedData(fn, analysis) # <<>>
    /\ (\A i \in DOMAIN given : given[i].name.function \notin Prefixes(fn))
          => analysis.confirmed = <<>>
    /\ fn \in {"analyze_h4", "analyze_h5"} => analysis.confirmed = <<>>

\* C22: an analysis is confirmed or refuted only if it matched at least one
\* pair, configuration or scaling datum; without a record of its prefixes it
\* is inconclusive, and analyze_h4 and analyze_h5 are inconclusive always.
C22_NoneWithoutData ==
    pc = "returned" => NoneWithoutData(call.fn, call.results, ret)

\* analyze_h4 returned inconclusive on escape data
C22_Witness ==
    /\ pc = "returned"
    /\ call.fn = "analyze_h4"
    /\ Len(ret.escape_data) = 2
    /\ ret.confirmed = <<>>

\* the efficiencies of the scaling data at 8 threads or more
HighEfficiencies(scaling_data) ==
    LET among == SelectSeq(scaling_data, LAMBDA d : d.threads >= 8)
    IN  [i \in DOMAIN among |-> among[i].efficiency]

\* the efficiencies of the scaling data at 2 to 4 threads
LowEfficiencies(scaling_data) ==
    LET among == SelectSeq(scaling_data,
                           LAMBDA d : 2 <= d.threads /\ d.threads <= 4)
    IN  [i \in DOMAIN among |-> among[i].efficiency]

\* mean(high) < 0.5 * mean(low), both being lists of finite fractions
HalfMeanBelow(high, low) ==
    2 * RSum(high)[1] * RSum(low)[2] * Len(low)
        < RSum(low)[1] * RSum(high)[2] * Len(high)

\* C29: every scaling datum of analyze_h3 is the speedup of its record
\* against a 1-thread record of the same Size_MB whose time is not 0, a size
\* without such a record has no datum, and confirmed is (mean efficiency at 8
\* threads or more) < 0.5 * (mean efficiency at 2 to 4 threads) when both
\* sets are non-empty and None otherwise.
C29_SpeedupWithinSize ==
    (pc = "returned" /\ call.fn = "analyze_h3") =>
        LET records == Group("BM_H3_ThreadScaling")
            bases(size) ==
                {i \in DOMAIN records :
                    /\ SizeMB(records[i]) = size
                    /\ Threads(records[i]) = 1
                    /\ records[i].real_time # 0}
            high == HighEfficiencies(ret.scaling_data)
            low == LowEfficiencies(ret.scaling_data)
        IN  /\ \A k \in DOMAIN ret.scaling_data :
                  LET d == ret.scaling_data[k]
                  IN  /\ \E i \in bases(d.size_mb) :
                            d.speedup = RatioOrZero(records[i].real_time,
                                                    d.time_ms)
                      /\ \E j \in DOMAIN records :
                            /\ SizeMB(records[j]) = d.size_mb
                            /\ Threads(records[j]) = d.threads
                            /\ records[j].real_time = d.time_ms
            /\ ret.confirmed =
                   (IF high # <<>> /\ low # <<>>
                    THEN <<HalfMeanBelow(high, low)>> ELSE <<>>)

\* a 10 MB file confirmed on its own base time while the 100 MB file, which
\* has no 1-thread record, has no datum
C29_Witness ==
    /\ pc = "returned"
    /\ call.fn = "analyze_h3"
    /\ ret.confirmed = <<TRUE>>
    /\ \E i \in DOMAIN call.results : SizeMB(call.results[i]) = 100
    /\ \A k \in DOMAIN ret.scaling_data : ret.scaling_data[k].size_mb = 10

----------------------------------------------------------------------------
(* scripts/analyze_hypotheses.py: main *)

RESULTS_FILE == "results.json"

\* the element of main's list "analyses" at position n
Analysis(n, results) ==
    CASE n = 1 -> analyze_h1(results)
      [] n = 2 -> analyze_h2(results)
      [] n = 3 -> analyze_h3(results)
      [] n = 4 -> analyze_h4(results)
      [] n = 5 -> analyze_h5(results)
      [] n = 6 -> analyze_h6(results)
      [] n = 7 -> analyze_h7(results)

\* mutant: analyze_h3 sorts the list it was given
ResultsAfter_sortedByH3(n, results) ==
    IF n = 3 THEN sort_by_threads(results) ELSE results

\* the list main passed to the n-th analysis, once that analysis returned:
\* group_by_prefix returns a new list, analyze_h3 sorts the new lists of
\* by_size, and no analysis assigns to a record
ResultsAfter(n, results) == results

\* the status line of an analysis in the report
StatusLine(analysis) ==
    IF analysis.confirmed = <<TRUE>> THEN "CONFIRMED"
    ELSE IF analysis.confirmed = <<FALSE>> THEN "REFUTED"
    ELSE "INCONCLUSIVE"

\* format_report_markdown and format_report_text: for every analysis its
\* title, its status and its details
format_report(format, done) ==
    [i \in DOMAIN done |->
        [format |-> format, hypothesis |-> done[i].hypothesis,
         status |-> StatusLine(done[i]), details |-> done[i].details]]

\* mutant: a refuted hypothesis fails the process
ReportStatus_failsOnRefuted(done) ==
    IF \E i \in DOMAIN done : done[i].confirmed = <<FALSE>> THEN 1 ELSE 0

\* main returns after printing the report: the status of the process is 0
ReportStatus(done) == 0

\* try: results = load_results(args.results_file), with the two except
\* clauses
AnalyzeLoad ==
    /\ pc = "start"
    /\ script = "analyze_hypotheses"
    /\ LET file == fs[args.results_file]
       IN  IF file.kind = "absent"
           THEN /\ out' = Append(out, Line("Error: File not found"))
                /\ exit_code' = 1
                /\ pc' = "exited"
                /\ UNCHANGED hyp_results
           ELSE IF file.kind = "malformed"
           THEN /\ out' = Append(out, Line("Error: Invalid JSON"))
                /\ exit_code' = 1
                /\ pc' = "exited"
                /\ UNCHANGED hyp_results
           ELSE /\ hyp_results' = load_results(file.benchmarks)
                /\ pc' = "loaded"
                /\ UNCHANGED <<out, exit_code>>
    /\ UNCHANGED <<script, environ, args, fs, current, time_unit, baseline,
                   cmp, copies, call, ret, analyses>>

\* if not results: sys.exit(1)
AnalyzeNoResults ==
    /\ pc = "loaded"
    /\ script = "analyze_hypotheses"
    /\ hyp_results = <<>>
    /\ out' = Append(out, Line("Error: No benchmark results found in file"))
    /\ exit_code' = 1
    /\ pc' = "exited"
    /\ UNCHANGED <<script, environ, args, fs, current, time_unit, baseline,
                   cmp, copies, call, ret, hyp_results, analyses>>

\* the next element of analyses = [analyze_h1(results), ...,
\* analyze_h7(results)]
AnalyzeNext ==
    /\ pc = "loaded"
    /\ script = "analyze_hypotheses"
    /\ hyp_results # <<>>
    /\ Len(analyses) < 7
    /\ analyses' = Append(analyses, Analysis(Len(analyses) + 1, hyp_results))
    /\ hyp_results' = ResultsAfter(Len(analyses) + 1, hyp_results)
    /\ UNCHANGED <<pc, script, environ, args, fs, current, time_unit,
                   baseline, cmp, exit_code, out, copies, call, ret>>

\* print(format_report_...(analyses)) and the end of main
AnalyzeReport ==
    /\ pc = "loaded"
    /\ script = "analyze_hypotheses"
    /\ Len(analyses) = 7
    /\ out' = out \o format_report(args.format, analyses)
    /\ exit_code' = ReportStatus(analyses)
    /\ pc' = "exited"
    /\ UNCHANGED <<script, environ, args, fs, current, time_unit, baseline,
                   cmp, copies, call, ret, hyp_results, analyses>>

\* an entry that Google Benchmark wrote for a run that failed
Errored(entry) ==
    [entry EXCEPT !.keys = [error_occurred |-> TRUE,
                            error_message |-> "timeout"] @@ entry.keys]

\* entries that come before the runs of the hypotheses in a results file: a
\* failed run of BM_H7_DirectSpanAccess, with or without a time, and the mean
\* of some repetitions
ReportExtras ==
    {Errored(HBench("BM_H7_DirectSpanAccess", <<5>>, [Rows |-> 1000])),
     Errored(HBench("BM_H7_DirectSpanAccess", <<>>, [Rows |-> 1000])),
     [HBench("BM_H7_ViaRowObject", <<30>>, [Rows |-> 1000])
        EXCEPT !.aggregate_name = "mean"]}

\* the results files of the runs that are explored: at most most extra
\* entries, then for a hypothesis no run, runs that confirm it or runs that
\* refute it
ReportFiles(most) ==
    {Absent, Malformed}
    \cup {Json(extras \o h1 \o h2 \o h3 \o h6 \o h7) :
            extras \in Groups(ReportExtras, most),
            h1 \in {<<>>} \cup
                   {<<HBench("BM_FullPipeline_RowMajor", <<20>>,
                             [Rows |-> 1000, Cols |-> 10]),
                      HBench("BM_FullPipeline_ColMajor", <<t>>,
                             [Rows |-> 1000, Cols |-> 10])>> : t \in {10, 30}},
            h2 \in {<<>>,
                    <<HBench(H2Prefix.parse_only, <<10>>,
                             [Rows |-> 1000, Cols |-> 10]),
                      HBench(H2Prefix.arrow_full, <<30>>,
                             [Rows |-> 1000, Cols |-> 10])>>},
            h3 \in {<<>>,
                    <<H3Bench(80, 8), H3Bench(40, 4), H3Bench(80, 1)>>},
            h6 \in {<<>>} \cup
                   {<<HBench("BM_H6_FieldAccess_NoCompact", <<t>>,
                             [Rows |-> 1000, Threads |-> 4]),
                      HBench("BM_H6_FieldAccess_WithCompact", <<10>>,
                             [Rows |-> 1000, Threads |-> 4]),
                      HBench("BM_H6_RandomAccess_NoCompact", <<30>>,
                             [Threads |-> 4, Accesses |-> 100]),
                      HBench("BM_H6_RandomAccess_WithCompact", <<20>>,
                             [Threads |-> 4, Accesses |-> 100])>> :
                        t \in {10, 20}},
            h7 \in {<<>>} \cup
                   {<<HBench("BM_H7_ViaRowObject", <<t>>, [Rows |-> 1000]),
                      HBench("BM_H7_DirectSpanAccess", <<20>>,
                             [Rows |-> 1000])>> : t \in {20, 40}}}

AnalyzeInit ==
    /\ pc = "start"
    /\ script = "analyze_hypotheses"
    /\ environ = [GITHUB_EVENT_NAME |-> "push", GITHUB_REF |-> "refs/heads/main"]
    /\ args \in [results_file : {RESULTS_FILE}, format : {"markdown", "text"}]
    /\ \E file \in ReportFiles(MaxGroup) : fs = [p \in {RESULTS_FILE} |-> file]
    /\ current = None
    /\ time_unit = <<>>
    /\ baseline = None
    /\ cmp = [called |-> FALSE, lists |-> NoLists]
    /\ exit_code = Running
    /\ out = <<>>
    /\ copies = 0
    /\ call = NoCall
    /\ ret = NoCall
    /\ hyp_results = <<>>
    /\ analyses = <<>>

AnalyzeSteps ==
    \/ AnalyzeLoad
    \/ AnalyzeNoResults
    \/ AnalyzeNext
    \/ AnalyzeReport

SpecAnalyze == AnalyzeInit /\ [][AnalyzeSteps]_vars

----------------------------------------------------------------------------
(* Properties of main of analyze_hypotheses.py (specification SpecAnalyze) *)

\* the entries of the results file
ResultsEntries == fs[RESULTS_FILE].benchmarks

\* error_occurred is set or an error_message is present
HasError(entry) ==
    \/ "error_message" \in DOMAIN entry.keys
    \/ "error_occurred" \in DOMAIN entry.keys /\ entry.keys.error_occurred

\* C23: the analyses of a run are those of the results file without its
\* errored entries: no record loaded from an errored entry takes part in a
\* pair, a ratio or an aggregate.
C23_ErroredExcluded ==
    pc = "exited" =>
        \A n \in DOMAIN analyses :
            analyses[n] =
                Analysis(n, load_results(SelectSeq(ResultsEntries,
                                                   LAMBDA e : ~HasError(e))))

\* the analyses by hypothesis when they are evaluated in the order given,
\* each on the list the one before it left
RECURSIVE EvaluatedIn(_, _)
EvaluatedIn(order, results) ==
    IF order = <<>> THEN <<>>
    ELSE <<[n |-> Head(order), analysis |-> Analysis(Head(order), results)]>>
         \o EvaluatedIn(Tail(order), ResultsAfter(Head(order), results))

\* other orders of evaluation: backwards, H3 first, H1 last
Orders ==
    {<<7, 6, 5, 4, 3, 2, 1>>, <<3, 1, 2, 4, 5, 6, 7>>, <<2, 3, 4, 5, 6, 7, 1>>}

C26_StatusFromFileOnly ==
    pc = "exited" =>
        exit_code = (IF \/ fs[RESULTS_FILE].kind # "json"
                        \/ load_results(ResultsEntries) = <<>>
                     THEN 1 ELSE 0)

\* a run ended with status 0 on a report with a refuted hypothesis
C26_Witness ==
    /\ pc = "exited"
    /\ exit_code = 0
    /\ \E i \in DOMAIN out : out[i].status = "REFUTED"
    /\ \E i \in DOMAIN out : out[i].status = "CONFIRMED"
    /\ \E i \in DOMAIN out : out[i].status = "INCONCLUSIVE"

====
